---- MODULE Spec2Model ----
(***************************************************************************)
(* Nested virtual clusters: the native tenant provisioner, the namespace   *)
(* scheduler's reconciler and the namespace patroller.                     *)
(*                                                                         *)
(* Nine specifications share this module:                                  *)
(*   SpecProv   Native.CreateVirtualCluster, run after run, over the super *)
(*              cluster's object store                                     *)
(*   SpecSched  controller.Reconcile of the namespace scheduler, one       *)
(*              worker per namespace key, over the scheduler cache         *)
(*   SpecGC     controller.shouldBeGarbageCollected over the informer      *)
(*              cache and the authoritative VirtualCluster store           *)
(*   SpecPatrol controller.PatrollerDo, round after round, over the super  *)
(*              and tenant namespaces                                      *)
(*   SpecReap   the patrol rounds under fairness, for liveness             *)
(*   SpecRace   the patrol rounds with namespaces re-created under them    *)
(*   SpecTerm   CreateVirtualCluster under fairness of the worker, for     *)
(*              termination                                                *)
(*   SpecETCD   genInitialClusterArgs and complementETCDTemplate over the  *)
(*              etcd bundles a run can fetch                               *)
(*   SpecUpd    controller.updateSchedulingResult against a tenant API     *)
(*              server with other writers                                  *)
(***************************************************************************)
EXTENDS Integers, Sequences, FiniteSets, TLC

VARIABLES
    \* ---- provisioner ----
    cv,         \* the ClusterVersion: which bundles carry a service, the API server's
                \* service type, and the bundle whose StatefulSet is not named after it
    pc,         \* position of the CreateVirtualCluster worker
    runs,       \* CreateVirtualCluster calls made so far
    faults,     \* injected failures so far (API errors, crashes)
    result,     \* what the last finished run returned
    rootNS,     \* the tenant's root namespace exists
    svcs,       \* services in the store: <<component, namespace>>
    stss,       \* StatefulSets in the root namespace
    ready,      \* StatefulSets with readyReplicas == replicas
    secrets,    \* secrets of the root namespace: name -> content
    caGroup,    \* the ClusterCAGroup minted by the current run
    secIdx,     \* index into the secrets slice of createPKISecrets
    compIdx,    \* which deployComponent call the run is in
    trace,      \* side effects the current run has issued, in order
    polls,      \* poll periods the current readiness wait has spent
    delResult,  \* what DeleteVirtualCluster returned: "none" before it ran, "nil" after
    \* ---- namespace scheduler ----
    dirty,      \* the owning VirtualCluster is in scheduler.DirtyVirtualClusters
    nsExists,   \* tenant namespaces that exist
    quota,      \* per tenant namespace: the envelope of its resource quotas
    annot,      \* per tenant namespace: the scheduled.placements annotation
    cache,      \* the scheduler cache: namespace key -> cluster -> reserved slices
    rpc,        \* per namespace key: position of the Reconcile worker
    expect,     \* local of Reconcile: expected slices (-1 before it is computed)
    placements, \* local of Reconcile: the placements read from the annotation
    ret,        \* local of Reconcile: the placements ScheduleNamespace returned
    rresult,    \* per namespace key: what the last Reconcile returned
    rtrace,     \* per namespace key: the calls the current Reconcile has made
    \* ---- patroller ----
    vcStore,    \* the authoritative store: UID of the VirtualCluster, 0 when there is none
    vcLister,   \* the informer cache of the same VirtualCluster
    nextUID,    \* the UID the next VirtualCluster creation gets
    pNamespaces,\* super-cluster namespaces carrying tenant ownership annotations
    gcCall,     \* the last shouldBeGarbageCollected call: inputs and result
    \* ---- patrol round ----
    loaded,     \* UID of the VirtualCluster whose tenant cluster is loaded, 0 when none is
    vNs,        \* the tenant namespace in the loaded tenant cluster
    pExtra,     \* the tenant namespace UID and metadata recorded on the synced namespace
    ppc,        \* position of PatrollerDo: "idle" or "diff"
    pSet,       \* the super-cluster namespaces the round listed
    vSet,       \* the tenant namespace the round listed
    knownClusterSet, \* the clusters whose tenant namespaces the round could list
    todo,       \* the items the differ has yet to hand to a handler
    plog,       \* per item: what its handler did in this round
    seen,       \* the item handled last; the informer cache and the store at that time
    metrics,    \* CheckerRemedyStats increments of this round
    requeues,   \* owner clusters on whose reconciler the round re-queued the tenant namespace
    pInst,      \* per super-cluster namespace name: the UID of its current instance
    \* ---- etcd template ----
    etcdBdl,    \* the etcd bundle of the ClusterVersion the run fetched
    epc,        \* position of the run with respect to the etcd bundle
    eruns,      \* runs that fetched a ClusterVersion so far
    \* ---- updateSchedulingResult ----
    tns,        \* the tenant namespace on the tenant API server
    informerNs, \* the copy of it in the informer cache, which Reconcile reads
    clone,      \* local of updateSchedulingResult: the object it updates
    target,     \* the placementMap argument ("nil" removes the annotation)
    upc,        \* position of updateSchedulingResult
    tries,      \* attempts RetryOnConflict has made
    uerr        \* the error of the last Update, then the error returned

provVars == <<cv, pc, runs, faults, result, rootNS, svcs, stss, ready,
              secrets, caGroup, secIdx, compIdx, trace, polls, delResult>>

schedVars == <<dirty, nsExists, quota, annot, cache, rpc, expect, placements,
               ret, rresult, rtrace>>

gcVars == <<vcStore, vcLister, nextUID, pNamespaces, gcCall>>

patrolVars == <<loaded, vNs, pExtra, ppc, pSet, vSet, knownClusterSet, todo, plog,
                seen, metrics, requeues, pInst>>

etcdVars == <<etcdBdl, epc, eruns>>

updVars == <<tns, informerNs, clone, target, upc, tries, uerr>>

vars == <<provVars, schedVars, gcVars, patrolVars, etcdVars, updVars>>

otherThanProv == <<schedVars, gcVars, patrolVars, etcdVars, updVars>>
otherThanSched == <<provVars, gcVars, patrolVars, etcdVars, updVars>>
otherThanGC == <<provVars, schedVars, patrolVars, etcdVars, updVars>>
otherThanPatrol == <<provVars, schedVars, etcdVars, updVars>>
otherThanETCD == <<provVars, schedVars, gcVars, patrolVars, updVars>>
otherThanUpd == <<provVars, schedVars, gcVars, patrolVars, etcdVars>>

-----------------------------------------------------------------------------
(* Bounds *)

MaxRuns == 2
MaxFaults == 2
MaxPolls == 2    \* poll periods in ProvisionerTimeout
CapC1 == 2       \* slices super cluster c1 can hold
CapC2 == 1       \* slices super cluster c2 can hold
MaxUID == 2      \* VirtualCluster creations under one name
MaxReplicas == 3 \* replicas of the etcd StatefulSet
MaxWrites == 3   \* writes to the tenant namespace by other writers
MaxInst == 2     \* instances of a super-cluster namespace under one name

-----------------------------------------------------------------------------
(* Provisioner: constants of the code *)

\* the three deployComponent calls of CreateVirtualCluster, in call order
DeployOrderSwapped == <<"apiserver", "etcd", "controller-manager">>
DeployOrder == <<"etcd", "apiserver", "controller-manager">>

ComponentSet == {"etcd", "apiserver", "controller-manager"}

\* the secrets slice of createPKISecrets, in slice order
SecretOrder == <<"root-ca", "apiserver-ca", "etcd-ca", "front-proxy-ca",
                 "controller-manager-kubeconfig", "admin-kubeconfig",
                 "serviceaccount-rsa">>

SecretNames == {SecretOrder[i] : i \in 1..Len(SecretOrder)}

NoSecret == [issuer |-> -1, key |-> -1, addr |-> "absent"]
NoCA == [root |-> 0, ip |-> "", final |-> "", lookup |-> "none"]

ServiceTypes == {"none", "ClusterIP", "NodePort"}

-----------------------------------------------------------------------------
(* Provisioner: helpers *)

\* cv.Spec.APIServer.Service != nil && ...Type == ServiceTypeClusterIP
IsClusterIP(c) == c.apiSvc = "ClusterIP"

\* ssBdl.Service != nil, per bundle
HasService(name, c) ==
    CASE name = "etcd" -> c.etcdSvc
      [] name = "apiserver" -> c.apiSvc # "none"
      [] OTHER -> c.cmSvc

\* the condition guarding the service create of deployComponent
DeploysServiceNoSkip(name, c) == HasService(name, c)
DeploysService(name, c) ==
    HasService(name, c) /\ ~(name = "apiserver" /\ c.apiSvc = "ClusterIP")

\* complementETCDTemplate and complementAPIServerTemplate assign through
\* bdl.Service without a nil check; complementCtrlMgrTemplate does not touch it
ComplementPanics(name, c) ==
    name \in {"etcd", "apiserver"} /\ ~HasService(name, c)

\* the namespace the service is created in: the complement functions of etcd
\* and apiserver rewrite it to the root namespace, the controller-manager one
\* leaves the template's
SvcNamespace(name) == IF name = "controller-manager" THEN "template" ELSE "root"

\* ssBdl.StatefulSet.GetName(): the name of the object deployComponent
\* creates; a ClusterVersion may name it otherwise than the bundle
StsObject(name, c) ==
    IF c.alias # name THEN name
    ELSE CASE name = "etcd" -> "etcd-0"
           [] name = "apiserver" -> "apiserver-0"
           [] OTHER -> "controller-manager-0"

\* the name WaitStatefulSetReady is called with: ssBdl.Name
WaitObject(name, c) == name

\* where CreateVirtualCluster goes after the Get of the ClusterVersion
AfterGetCVProceeds(failed) == "rootns"
AfterGetCV(failed) == IF failed THEN "idle" ELSE "rootns"

\* the readiness wait gives up when the timeout has elapsed, counted in polls
TimedOutNever(n) == FALSE
TimedOut(n) == n >= MaxPolls

\* what the API server answers to a create
CreateResult(exists) == IF exists THEN "AlreadyExists" ELSE "nil"

\* err != nil && !apierrors.IsAlreadyExists(err)
IsFatalStrict(err) == err # "nil"
IsFatalIgnored(err) == FALSE
IsFatal(err) == err \notin {"nil", "AlreadyExists"}

\* kubeutil.GetSvcClusterIP as createPKI calls it: the cluster IP, none yet
\* allocated, or an error; not called unless isClusterIP
IPLookups(c) ==
    IF IsClusterIP(c)
    THEN {[ip |-> "ip", err |-> "nil"], [ip |-> "", err |-> "nil"],
          [ip |-> "", err |-> "error"]}
    ELSE {[ip |-> "", err |-> "skipped"]}

\* createPKI only logs the error of the lookup
LookupFatalStrict(err) == err = "error"
LookupFatal(err) == FALSE

\* finalAPIAddress := apiserverDomain; if clusterIP != "" { finalAPIAddress = clusterIP }
FinalAPIAddressDNS(ip) == "dns"
FinalAPIAddress(ip) == IF ip # "" THEN ip ELSE "dns"

\* the content the run's caGroup gives to each secret
SecretContent(name, ca) ==
    CASE name = "root-ca" -> [issuer |-> ca.root, key |-> ca.root, addr |-> "-"]
      [] name = "apiserver-ca" -> [issuer |-> ca.root, key |-> ca.root, addr |-> ca.ip]
      [] name \in {"etcd-ca", "front-proxy-ca"} ->
            [issuer |-> ca.root, key |-> ca.root, addr |-> "-"]
      [] name \in {"controller-manager-kubeconfig", "admin-kubeconfig"} ->
            [issuer |-> ca.root, key |-> ca.root, addr |-> ca.final]
      [] OTHER -> [issuer |-> 0, key |-> ca.root, addr |-> "-"]

\* mpn.Create(srt) with AlreadyExists skipped: the store after the call
PersistSecretOverwrite(store, name, content) == [store EXCEPT ![name] = content]
PersistSecret(store, name, content) ==
    IF store[name] # NoSecret THEN store ELSE [store EXCEPT ![name] = content]

Ev(op, arg, err) == [op |-> op, arg |-> arg, err |-> err]

\* errors an API call can return here: what the store answers, or an injected failure
Outcomes(exists) ==
    {CreateResult(exists)} \cup (IF faults < MaxFaults THEN {"error"} ELSE {})

Fault(err) == IF err = "error" THEN 1 ELSE 0

-----------------------------------------------------------------------------
(* Provisioner: Native.CreateVirtualCluster, one action per step *)

StartRun ==
    /\ pc = "idle"
    /\ runs < MaxRuns
    /\ delResult = "none"
    /\ pc' = "getcv"
    /\ runs' = runs + 1
    /\ result' = "running"
    /\ caGroup' = NoCA
    /\ secIdx' = 0
    /\ compIdx' = 0
    /\ trace' = <<>>
    /\ polls' = 0
    /\ UNCHANGED <<cv, faults, rootNS, svcs, stss, ready, secrets, delResult>>
    /\ UNCHANGED otherThanProv

\* mpn.Get(cvObjectKey, cv)
GetClusterVersion ==
    /\ pc = "getcv"
    /\ \E failed \in (IF faults < MaxFaults THEN BOOLEAN ELSE {FALSE}) :
          /\ pc' = AfterGetCV(failed)
          /\ result' = IF failed THEN "cv-not-found" ELSE result
          /\ faults' = faults + (IF failed THEN 1 ELSE 0)
    /\ UNCHANGED <<cv, runs, rootNS, svcs, stss, ready, secrets, caGroup,
                   secIdx, compIdx, trace>>
    /\ UNCHANGED <<polls, delResult>>
    /\ UNCHANGED otherThanProv

\* kubeutil.CreateRootNS: create-or-skip
CreateRootNS ==
    /\ pc = "rootns"
    /\ \E err \in Outcomes(rootNS) :
          /\ trace' = Append(trace, Ev("create-ns", "-", err))
          /\ rootNS' = (rootNS \/ err = "nil")
          /\ faults' = faults + Fault(err)
          /\ IF err = "error"
             THEN /\ pc' = "idle"
                  /\ result' = "error"
             ELSE /\ pc' = IF IsClusterIP(cv) THEN "apisvc" ELSE "pki"
                  /\ UNCHANGED result
    /\ UNCHANGED <<cv, runs, svcs, stss, ready, secrets, caGroup, secIdx, compIdx>>
    /\ UNCHANGED <<polls, delResult>>
    /\ UNCHANGED otherThanProv

\* the ClusterIP service create ahead of the PKI
CreateAPIServerService ==
    /\ pc = "apisvc"
    /\ \E err \in Outcomes(<<"apiserver", "root">> \in svcs) :
          /\ trace' = Append(trace, Ev("create-svc-early", "apiserver", err))
          /\ svcs' = IF err = "nil" THEN svcs \cup {<<"apiserver", "root">>} ELSE svcs
          /\ faults' = faults + Fault(err)
          /\ IF IsFatal(err)
             THEN /\ pc' = "idle"
                  /\ result' = err
             ELSE /\ pc' = "pki"
                  /\ UNCHANGED result
    /\ UNCHANGED <<cv, runs, rootNS, stss, ready, secrets, caGroup, secIdx, compIdx>>
    /\ UNCHANGED <<polls, delResult>>
    /\ UNCHANGED otherThanProv

\* createPKI up to the call of createPKISecrets: a fresh root CA, the leaves
\* and kubeconfigs signed by it, the cluster IP when it can be read
MintPKI ==
    /\ pc = "pki"
    /\ \/ \E look \in IPLookups(cv) :
             IF LookupFatal(look.err)
             THEN /\ trace' = Append(trace, Ev("mint", "-", "error"))
                  /\ pc' = "idle"
                  /\ result' = "error"
                  /\ UNCHANGED <<caGroup, secIdx, faults>>
             ELSE /\ caGroup' = [root |-> runs, ip |-> look.ip,
                                 final |-> FinalAPIAddress(look.ip), lookup |-> look.err]
                  /\ trace' = Append(trace, Ev("mint", "-", "nil"))
                  /\ pc' = "secrets"
                  /\ secIdx' = 1
                  /\ UNCHANGED <<result, faults>>
       \/ /\ faults < MaxFaults
          /\ trace' = Append(trace, Ev("mint", "-", "error"))
          /\ pc' = "idle"
          /\ result' = "error"
          /\ faults' = faults + 1
          /\ UNCHANGED <<caGroup, secIdx>>
    /\ UNCHANGED <<cv, runs, rootNS, svcs, stss, ready, secrets, compIdx>>
    /\ UNCHANGED <<polls, delResult>>
    /\ UNCHANGED otherThanProv

\* one iteration of the loop of createPKISecrets
CreateSecret ==
    /\ pc = "secrets"
    /\ LET name == SecretOrder[secIdx] IN
       \E err \in Outcomes(secrets[name] # NoSecret) :
          /\ trace' = Append(trace, Ev("create-secret", name, err))
          /\ secrets' = IF err = "error" THEN secrets
                        ELSE PersistSecret(secrets, name, SecretContent(name, caGroup))
          /\ faults' = faults + Fault(err)
          /\ IF IsFatal(err)
             THEN /\ pc' = "idle"
                  /\ result' = err
                  /\ UNCHANGED <<secIdx, compIdx>>
             ELSE /\ UNCHANGED result
                  /\ IF secIdx < Len(SecretOrder)
                     THEN /\ secIdx' = secIdx + 1
                          /\ pc' = "secrets"
                          /\ UNCHANGED compIdx
                     ELSE /\ secIdx' = 0
                          /\ pc' = "complement"
                          /\ compIdx' = 1
    /\ UNCHANGED <<cv, runs, rootNS, svcs, stss, ready, caGroup>>
    /\ UNCHANGED <<polls, delResult>>
    /\ UNCHANGED otherThanProv

\* deployComponent: the switch on ssBdl.Name
Complement ==
    /\ pc = "complement"
    /\ IF ComplementPanics(DeployOrder[compIdx], cv)
       THEN /\ pc' = "idle"
            /\ result' = "panic"
       ELSE /\ pc' = "sts"
            /\ UNCHANGED result
    /\ UNCHANGED <<cv, runs, faults, rootNS, svcs, stss, ready, secrets,
                   caGroup, secIdx, compIdx, trace>>
    /\ UNCHANGED <<polls, delResult>>
    /\ UNCHANGED otherThanProv

\* deployComponent: mpn.Create(ssBdl.StatefulSet)
CreateStatefulSet ==
    /\ pc = "sts"
    /\ LET name == DeployOrder[compIdx] IN
       \E err \in Outcomes(StsObject(name, cv) \in stss) :
          /\ trace' = Append(trace, Ev("create-sts", name, err))
          /\ stss' = IF err = "nil" THEN stss \cup {StsObject(name, cv)} ELSE stss
          /\ faults' = faults + Fault(err)
          /\ IF IsFatal(err)
             THEN /\ pc' = "idle"
                  /\ result' = err
             ELSE /\ pc' = IF DeploysService(name, cv) THEN "svc" ELSE "wait"
                  /\ UNCHANGED result
    /\ UNCHANGED <<cv, runs, rootNS, svcs, ready, secrets, caGroup, secIdx, compIdx>>
    /\ UNCHANGED <<polls, delResult>>
    /\ UNCHANGED otherThanProv

\* deployComponent: mpn.Create(ssBdl.Service)
CreateService ==
    /\ pc = "svc"
    /\ LET name == DeployOrder[compIdx]
           obj == <<name, SvcNamespace(name)>> IN
       \E err \in Outcomes(obj \in svcs) :
          /\ trace' = Append(trace, Ev("create-svc", name, err))
          /\ svcs' = IF err = "nil" THEN svcs \cup {obj} ELSE svcs
          /\ faults' = faults + Fault(err)
          /\ IF IsFatal(err)
             THEN /\ pc' = "idle"
                  /\ result' = err
             ELSE /\ pc' = "wait"
                  /\ UNCHANGED result
    /\ UNCHANGED <<cv, runs, rootNS, stss, ready, secrets, caGroup, secIdx, compIdx>>
    /\ UNCHANGED <<polls, delResult>>
    /\ UNCHANGED otherThanProv

\* deployComponent: kubeutil.WaitStatefulSetReady polls the workload until
\* it is Ready or the timeout has elapsed
WaitStatefulSetReady ==
    /\ pc = "wait"
    /\ LET name == DeployOrder[compIdx] IN
       IF WaitObject(name, cv) \in ready
       THEN /\ trace' = Append(trace, Ev("wait-ready", name, "nil"))
            /\ polls' = 0
            /\ IF compIdx < Len(DeployOrder)
               THEN /\ compIdx' = compIdx + 1
                    /\ pc' = "complement"
                    /\ UNCHANGED result
               ELSE /\ compIdx' = 0
                    /\ pc' = "idle"
                    /\ result' = "ok"
       ELSE IF ~TimedOut(polls)
       THEN /\ polls' = IF polls < MaxPolls THEN polls + 1 ELSE polls
            /\ UNCHANGED <<trace, pc, result, compIdx>>
       ELSE /\ trace' = Append(trace, Ev("wait-ready", name, "timeout"))
            /\ polls' = 0
            /\ pc' = "idle"
            /\ result' = "timeout"
            /\ UNCHANGED compIdx
    /\ UNCHANGED <<cv, runs, faults, rootNS, svcs, stss, ready, secrets,
                   caGroup, secIdx, delResult>>
    /\ UNCHANGED otherThanProv

\* the process is killed in the middle of a run
Crash ==
    /\ pc # "idle"
    /\ faults < MaxFaults
    /\ pc' = "idle"
    /\ result' = "crashed"
    /\ faults' = faults + 1
    /\ UNCHANGED <<cv, runs, rootNS, svcs, stss, ready, secrets, caGroup,
                   secIdx, compIdx, trace>>
    /\ UNCHANGED <<polls, delResult>>
    /\ UNCHANGED otherThanProv

\* the super cluster's StatefulSet controller brings a workload to Ready
BecomeReady ==
    /\ \E name \in stss \ ready : ready' = ready \cup {name}
    /\ UNCHANGED <<cv, pc, runs, faults, result, rootNS, svcs, stss, secrets,
                   caGroup, secIdx, compIdx, trace>>
    /\ UNCHANGED <<polls, delResult>>
    /\ UNCHANGED otherThanProv

\* Native.DeleteVirtualCluster, called by the reconciler of a VirtualCluster
\* under deletion while no provisioning run is in progress: it returns nil
DeleteVirtualCluster ==
    /\ pc = "idle"
    /\ delResult = "none"
    /\ delResult' = "nil"
    /\ UNCHANGED <<cv, pc, runs, faults, result, rootNS, svcs, stss, ready, secrets,
                   caGroup, secIdx, compIdx, trace, polls>>
    /\ UNCHANGED otherThanProv

ProvInit ==
    /\ cv \in [apiSvc : ServiceTypes, etcdSvc : BOOLEAN, cmSvc : BOOLEAN,
                alias : ComponentSet \cup {"none"}]
    /\ pc = "idle"
    /\ runs = 0
    /\ faults = 0
    /\ result = "none"
    /\ rootNS = FALSE
    /\ svcs = {}
    /\ stss = {}
    /\ ready = {}
    /\ secrets = [n \in SecretNames |-> NoSecret]
    /\ caGroup = NoCA
    /\ secIdx = 0
    /\ compIdx = 0
    /\ trace = <<>>
    /\ polls = 0
    /\ delResult = "none"

NextProv ==
    \/ StartRun
    \/ GetClusterVersion
    \/ CreateRootNS
    \/ CreateAPIServerService
    \/ MintPKI
    \/ CreateSecret
    \/ Complement
    \/ CreateStatefulSet
    \/ CreateService
    \/ WaitStatefulSetReady
    \/ Crash
    \/ BecomeReady
    \/ DeleteVirtualCluster

\* the provisioner at rest, for the specifications of the other subsystems
ProvOff ==
    /\ cv = [apiSvc |-> "ClusterIP", etcdSvc |-> TRUE, cmSvc |-> FALSE, alias |-> "none"]
    /\ pc = "idle"
    /\ runs = MaxRuns
    /\ faults = 0
    /\ result = "none"
    /\ rootNS = FALSE
    /\ svcs = {}
    /\ stss = {}
    /\ ready = {}
    /\ secrets = [n \in SecretNames |-> NoSecret]
    /\ caGroup = NoCA
    /\ secIdx = 0
    /\ compIdx = 0
    /\ trace = <<>>
    /\ polls = 0
    /\ delResult = "none"


-----------------------------------------------------------------------------
(* Namespace scheduler: data *)

NsKeys == {"n1", "n2"}
Clusters == {"c1", "c2"}

\* name order of the super clusters
ClusterIdx == [c \in Clusters |-> IF c = "c1" THEN 1 ELSE 2]

Capacity == [c \in Clusters |-> IF c = "c1" THEN CapC1 ELSE CapC2]

\* the slice size GetSchedulingInfo returns for a namespace
Slice == [cpu |-> 1, mem |-> 2]

\* the quotas a tenant namespace declares: none, memory below one slice,
\* cpu the tight resource, memory the tight resource
ZeroQuota == [cpu |-> 0, mem |-> 0]
Quotas == {ZeroQuota, [cpu |-> 2, mem |-> 1], [cpu |-> 1, mem |-> 5],
           [cpu |-> 3, mem |-> 4]}

ZeroP == [c \in Clusters |-> 0]
NoAnnotation == [present |-> FALSE, p |-> ZeroP]
Annotation(p) == [present |-> TRUE, p |-> p]

RECURSIVE SumOver(_, _)
SumOver(f, S) ==
    IF S = {} THEN 0
    ELSE LET x == CHOOSE y \in S : TRUE IN f[x] + SumOver(f, S \ {x})

\* numSched: the sum over the placement map
NumSlices(p) == SumOver(p, Clusters)

Min(a, b) == IF a <= b THEN a ELSE b

-----------------------------------------------------------------------------
(* Namespace scheduler: the scheduler cache and engine *)

\* floor(quota.r / slice.r) per resource, the minimum over cpu and memory
GetLeastFitSliceNum(q, sl) == Min(q.cpu \div sl.cpu, q.mem \div sl.mem)

\* slices reserved in cluster c by every namespace but ns
ReservedByOthers(ch, ns, c) ==
    SumOver([m \in NsKeys |-> IF m = ns THEN 0 ELSE ch[m][c]], NsKeys)

Free(ch, ns, c) == Capacity[c] - ReservedByOthers(ch, ns, c)

\* Reserve / Ensure accept a placement only when every cluster has room for it
FitsUnchecked(ch, ns, p) == TRUE
Fits(ch, ns, p) == \A c \in Clusters : p[c] <= Free(ch, ns, c)

\* most free capacity first, then name ascending
Best(S, free) ==
    CHOOSE c \in S : \A d \in S :
        \/ free[c] > free[d]
        \/ free[c] = free[d] /\ ClusterIdx[c] <= ClusterIdx[d]

RECURSIVE Greedy(_, _, _, _)
Greedy(S, free, need, acc) ==
    IF S = {} \/ need = 0 THEN acc
    ELSE LET c == Best(S, free)
             k == Min(free[c], need)
         IN Greedy(S \ {c}, free, need - k, [acc EXCEPT ![c] = k])

\* the placements the engine finds for n slices of ns
SchedulePlan(ch, ns, n) ==
    Greedy(Clusters, [c \in Clusters |-> Free(ch, ns, c)], n, ZeroP)

\* ScheduleNamespace: the cache after the call; unchanged when it fails
ScheduleOk(ch, ns, n) ==
    LET p == SchedulePlan(ch, ns, n) IN NumSlices(p) = n /\ Fits(ch, ns, p)

Reserve(ch, ns, p) == [ch EXCEPT ![ns] = p]

\* DeScheduleNamespace: release the entry, a no-op when there is none
ReleaseKeepsEntry(ch, ns) == ch
Release(ch, ns) == [ch EXCEPT ![ns] = ZeroP]

-----------------------------------------------------------------------------
(* Namespace scheduler: controller.Reconcile, one action per step *)

Call(op, arg, ok) == [op |-> op, arg |-> arg, ok |-> ok]

Return(ns, res) ==
    /\ rpc' = [rpc EXCEPT ![ns] = "done"]
    /\ rresult' = [rresult EXCEPT ![ns] = res]

\* where Reconcile goes after reading the namespace: the three-way branch on
\* expect and numSched
BranchAlwaysSchedule(e, p) == IF e = 0 THEN "unannotate" ELSE "schedule"
BranchEnsureIfPresent(e, p) ==
    IF e = 0 THEN "unannotate"
    ELSE IF NumSlices(p) > 0 THEN "ensure" ELSE "schedule"
Branch(e, p) ==
    IF e = 0 THEN "unannotate"
    ELSE IF NumSlices(p) = e THEN "ensure" ELSE "schedule"

\* where Reconcile goes after ScheduleNamespace returned
AfterSchedulePublishAnyway(ok) == "publish"
AfterSchedule(ok) == IF ok THEN "publish" ELSE "done"

\* the event Reconcile emits when ScheduleNamespace returned
ScheduleEventsNone(ok) == <<>>
ScheduleEvents(ok) == IF ok THEN <<>> ELSE <<Call("Eventf", "Failed", TRUE)>>

\* placementMap := ret.GetPlacementMap()
PlacementMapStale(ns) == placements[ns]
PlacementMap(ns) == ret[ns]

\* the head of Reconcile: GetOwnerInfo, then the dirty check
DirtyCheckSkipped(ownerErr, isDirty) == IF ownerErr THEN "err" ELSE "get"
DirtyCheck(ownerErr, isDirty) ==
    IF ownerErr THEN "err" ELSE IF isDirty THEN "requeue" ELSE "get"

\* what MultiClusterController.Get answers for the namespace of the key
GetOutcomes(ns) == (IF nsExists[ns] THEN {"found"} ELSE {"NotFound"}) \cup {"error"}

\* where Reconcile goes after the Get of the namespace
AfterGetDeSchedulesOnError(get) == IF get = "found" THEN "read" ELSE "gone"
AfterGet(get) ==
    IF get = "found" THEN "read" ELSE IF get = "NotFound" THEN "gone" ELSE "done"

\* the reads of Reconcile up to the three-way branch: GetOwnerInfo, the dirty
\* check, Get the namespace, List its quotas, read the annotation and compute
\* expect
RecBegin(ns) ==
    /\ rpc[ns] = "idle"
    /\ \E ownerErr \in BOOLEAN :
          LET h == DirtyCheck(ownerErr, dirty) IN
          IF h = "err"
          THEN /\ rtrace' = [rtrace EXCEPT ![ns] = Append(@, Call("GetOwnerInfo", "-", FALSE))]
               /\ Return(ns, "err")
               /\ UNCHANGED <<expect, placements>>
          ELSE IF h = "requeue"
          THEN /\ Return(ns, "requeue")
               /\ UNCHANGED <<expect, placements, rtrace>>
          ELSE \E get \in GetOutcomes(ns) :
                  LET to == AfterGet(get) IN
                  IF to = "done"
                  THEN /\ rtrace' = [rtrace EXCEPT ![ns] = Append(@, Call("Get", get, FALSE))]
                       /\ Return(ns, "err")
                       /\ UNCHANGED <<expect, placements>>
                  ELSE IF to = "gone"
                  THEN /\ rtrace' = [rtrace EXCEPT ![ns] = Append(@, Call("Get", get, FALSE))]
                       /\ rpc' = [rpc EXCEPT ![ns] = "gone"]
                       /\ rresult' = [rresult EXCEPT ![ns] = "running"]
                       /\ UNCHANGED <<expect, placements>>
                  ELSE \/ \* the List of the quotas or GetSchedulingInfo fails
                          /\ \E op \in {"List", "GetSchedulingInfo"} :
                                rtrace' = [rtrace EXCEPT ![ns] = Append(@, Call(op, "-", FALSE))]
                          /\ Return(ns, "err")
                          /\ UNCHANGED <<expect, placements>>
                       \/ LET e == GetLeastFitSliceNum(quota[ns], Slice) IN
                          /\ expect' = [expect EXCEPT ![ns] = e]
                          /\ placements' = [placements EXCEPT ![ns] = annot[ns].p]
                          /\ rpc' = [rpc EXCEPT ![ns] = Branch(e, annot[ns].p)]
                          /\ rresult' = [rresult EXCEPT ![ns] = "running"]
                          /\ UNCHANGED rtrace
    /\ UNCHANGED <<dirty, nsExists, quota, annot, cache, ret>>
    /\ UNCHANGED otherThanSched

\* Reconcile has returned; the worker takes the next request for the key
RecDone(ns) ==
    /\ rpc[ns] = "done"
    /\ rpc' = [rpc EXCEPT ![ns] = "idle"]
    /\ rresult' = [rresult EXCEPT ![ns] = "none"]
    /\ expect' = [expect EXCEPT ![ns] = -1]
    /\ placements' = [placements EXCEPT ![ns] = ZeroP]
    /\ ret' = [ret EXCEPT ![ns] = ZeroP]
    /\ rtrace' = [rtrace EXCEPT ![ns] = <<>>]
    /\ UNCHANGED <<dirty, nsExists, quota, annot, cache>>
    /\ UNCHANGED otherThanSched

\* the namespace is gone: DeScheduleNamespace and return
RecDeScheduleGone(ns) ==
    /\ rpc[ns] = "gone"
    /\ cache' = Release(cache, ns)
    /\ rtrace' = [rtrace EXCEPT ![ns] = Append(@, Call("DeSchedule", "-", TRUE))]
    /\ Return(ns, "ok")
    /\ UNCHANGED <<dirty, nsExists, quota, annot, expect, placements, ret>>
    /\ UNCHANGED otherThanSched

\* expect == 0: updateSchedulingResult(nil)
RecUnannotate(ns) ==
    /\ rpc[ns] = "unannotate"
    /\ \/ /\ nsExists[ns]
          /\ annot' = [annot EXCEPT ![ns] = NoAnnotation]
          /\ rtrace' = [rtrace EXCEPT ![ns] = Append(@, Call("Update", "remove", TRUE))]
          /\ rpc' = [rpc EXCEPT ![ns] = "release"]
          /\ UNCHANGED rresult
       \/ /\ rtrace' = [rtrace EXCEPT ![ns] = Append(@, Call("Update", "remove", FALSE))]
          /\ Return(ns, "err")
          /\ UNCHANGED annot
    /\ UNCHANGED <<dirty, nsExists, quota, cache, expect, placements, ret>>
    /\ UNCHANGED otherThanSched

\* expect == 0: DeScheduleNamespace after the annotation was removed
RecRelease(ns) ==
    /\ rpc[ns] = "release"
    /\ cache' = Release(cache, ns)
    /\ rtrace' = [rtrace EXCEPT ![ns] = Append(@, Call("DeSchedule", "-", TRUE))]
    /\ Return(ns, "ok")
    /\ UNCHANGED <<dirty, nsExists, quota, annot, expect, placements, ret>>
    /\ UNCHANGED otherThanSched

\* numSched == expect: EnsureNamespacePlacements(candidate)
RecEnsure(ns) ==
    /\ rpc[ns] = "ensure"
    /\ IF Fits(cache, ns, placements[ns])
       THEN /\ cache' = Reserve(cache, ns, placements[ns])
            /\ rtrace' = [rtrace EXCEPT ![ns] = Append(@, Call("Ensure", "-", TRUE))]
            /\ Return(ns, "ok")
       ELSE /\ rtrace' = [rtrace EXCEPT ![ns] = Append(@, Call("Ensure", "-", FALSE))]
            /\ Return(ns, "err")
            /\ UNCHANGED cache
    /\ UNCHANGED <<dirty, nsExists, quota, annot, expect, placements, ret>>
    /\ UNCHANGED otherThanSched

\* ScheduleNamespace(candidate), and the Failed event when it fails
RecSchedule(ns) ==
    /\ rpc[ns] = "schedule"
    /\ LET ok == ScheduleOk(cache, ns, expect[ns])
           p == SchedulePlan(cache, ns, expect[ns]) IN
       /\ cache' = IF ok THEN Reserve(cache, ns, p) ELSE cache
       /\ ret' = [ret EXCEPT ![ns] = IF ok THEN p ELSE ZeroP]
       /\ rtrace' = [rtrace EXCEPT ![ns] =
              Append(@, Call("Schedule", "-", ok)) \o ScheduleEvents(ok)]
       /\ rpc' = [rpc EXCEPT ![ns] = AfterSchedule(ok)]
       /\ rresult' = [rresult EXCEPT ![ns] = IF ok THEN @ ELSE "err"]
    /\ UNCHANGED <<dirty, nsExists, quota, annot, expect, placements>>
    /\ UNCHANGED otherThanSched

\* updateSchedulingResult(placementMap), and the Scheduled event when it succeeds
RecPublish(ns) ==
    /\ rpc[ns] = "publish"
    /\ \/ /\ nsExists[ns]
          /\ annot' = [annot EXCEPT ![ns] = Annotation(PlacementMap(ns))]
          /\ \E evOk \in BOOLEAN :
                /\ rtrace' = [rtrace EXCEPT ![ns] =
                       @ \o <<Call("Update", "set", TRUE), Call("Eventf", "Scheduled", evOk)>>]
                /\ Return(ns, IF evOk THEN "ok" ELSE "err")
       \/ /\ rtrace' = [rtrace EXCEPT ![ns] = Append(@, Call("Update", "set", FALSE))]
          /\ Return(ns, "err")
          /\ UNCHANGED annot
    /\ UNCHANGED <<dirty, nsExists, quota, cache, expect, placements, ret>>
    /\ UNCHANGED otherThanSched

-----------------------------------------------------------------------------
(* Namespace scheduler: the tenant and the leader election *)

\* the tenant creates, changes or deletes the resource quota of a namespace
\* (a change made after Reconcile read the quota is not seen by that Reconcile
\* and is taken here after it returned)
SetQuota(ns) ==
    /\ nsExists[ns]
    /\ rpc[ns] = "idle"
    /\ \E q \in Quotas \ {quota[ns]} : quota' = [quota EXCEPT ![ns] = q]
    /\ UNCHANGED <<dirty, nsExists, annot, cache, rpc, expect, placements, ret,
                   rresult, rtrace>>
    /\ UNCHANGED otherThanSched

\* the tenant deletes a namespace, with its quotas and annotations
DeleteNamespace(ns) ==
    /\ nsExists[ns]
    /\ nsExists' = [nsExists EXCEPT ![ns] = FALSE]
    /\ quota' = [quota EXCEPT ![ns] = ZeroQuota]
    /\ annot' = [annot EXCEPT ![ns] = NoAnnotation]
    /\ UNCHANGED <<dirty, cache, rpc, expect, placements, ret, rresult, rtrace>>
    /\ UNCHANGED otherThanSched

\* the tenant creates a namespace
CreateNamespace(ns) ==
    /\ ~nsExists[ns]
    /\ rpc[ns] = "idle"
    /\ nsExists' = [nsExists EXCEPT ![ns] = TRUE]
    /\ UNCHANGED <<dirty, quota, annot, cache, rpc, expect, placements, ret,
                   rresult, rtrace>>
    /\ UNCHANGED otherThanSched

\* the leader is replaced: the new leader starts with an empty cache, every
\* VirtualCluster dirty and no Reconcile in flight
Failover ==
    /\ ~dirty
    /\ dirty' = TRUE
    /\ cache' = [ns \in NsKeys |-> ZeroP]
    /\ rpc' = [ns \in NsKeys |-> "idle"]
    /\ rresult' = [ns \in NsKeys |-> "none"]
    /\ expect' = [ns \in NsKeys |-> -1]
    /\ placements' = [ns \in NsKeys |-> ZeroP]
    /\ ret' = [ns \in NsKeys |-> ZeroP]
    /\ rtrace' = [ns \in NsKeys |-> <<>>]
    /\ UNCHANGED <<nsExists, quota, annot>>
    /\ UNCHANGED otherThanSched

\* the VirtualCluster leaves the dirty set
ClearDirty ==
    /\ dirty
    /\ dirty' = FALSE
    /\ UNCHANGED <<nsExists, quota, annot, cache, rpc, expect, placements, ret,
                   rresult, rtrace>>
    /\ UNCHANGED otherThanSched

SchedInit ==
    /\ dirty = FALSE
    /\ nsExists = [ns \in NsKeys |-> TRUE]
    /\ quota = [ns \in NsKeys |-> ZeroQuota]
    /\ annot = [ns \in NsKeys |-> NoAnnotation]
    /\ cache = [ns \in NsKeys |-> ZeroP]
    /\ rpc = [ns \in NsKeys |-> "idle"]
    /\ expect = [ns \in NsKeys |-> -1]
    /\ placements = [ns \in NsKeys |-> ZeroP]
    /\ ret = [ns \in NsKeys |-> ZeroP]
    /\ rresult = [ns \in NsKeys |-> "none"]
    /\ rtrace = [ns \in NsKeys |-> <<>>]

\* the scheduler at rest, for the specifications of the other subsystems
SchedOff ==
    /\ dirty = FALSE
    /\ nsExists = [ns \in NsKeys |-> FALSE]
    /\ quota = [ns \in NsKeys |-> ZeroQuota]
    /\ annot = [ns \in NsKeys |-> NoAnnotation]
    /\ cache = [ns \in NsKeys |-> ZeroP]
    /\ rpc = [ns \in NsKeys |-> "idle"]
    /\ expect = [ns \in NsKeys |-> -1]
    /\ placements = [ns \in NsKeys |-> ZeroP]
    /\ ret = [ns \in NsKeys |-> ZeroP]
    /\ rresult = [ns \in NsKeys |-> "none"]
    /\ rtrace = [ns \in NsKeys |-> <<>>]

NextSched ==
    \/ \E ns \in NsKeys : RecBegin(ns)
    \/ \E ns \in NsKeys : RecDeScheduleGone(ns)
    \/ \E ns \in NsKeys : RecUnannotate(ns)
    \/ \E ns \in NsKeys : RecRelease(ns)
    \/ \E ns \in NsKeys : RecEnsure(ns)
    \/ \E ns \in NsKeys : RecSchedule(ns)
    \/ \E ns \in NsKeys : RecPublish(ns)
    \/ \E ns \in NsKeys : RecDone(ns)
    \/ \E ns \in NsKeys : SetQuota(ns)
    \/ \E ns \in NsKeys : DeleteNamespace(ns)
    \/ \E ns \in NsKeys : CreateNamespace(ns)
    \/ Failover
    \/ ClearDirty

-----------------------------------------------------------------------------
(* Patroller: data *)

SuperNamespaces == {"p1", "p2"}

UIDs == 1..MaxUID

\* a lookup's answer: the VirtualCluster's UID, NotFound, or another error
Found(uid) == [err |-> "nil", uid |-> uid]
NotFound == [err |-> "NotFound", uid |-> 0]
OtherError == [err |-> "error", uid |-> 0]

\* 0 stands for no VirtualCluster of that name
Lookup(store) == IF store = 0 THEN NotFound ELSE Found(store)

NoNamespace == [exists |-> FALSE, named |-> FALSE, uid |-> 0]
NoCall == [made |-> FALSE, ns |-> NoNamespace, lister |-> NotFound,
           api |-> NotFound, asked |-> FALSE, result |-> FALSE]

-----------------------------------------------------------------------------
(* Patroller: controller.shouldBeGarbageCollected *)

\* ns: the super-cluster namespace; lister: what c.vcLister answers;
\* api: what c.vcClient answers when asked.  result: the value returned;
\* asked: whether c.vcClient was called.
GCTrustsLister(ns, lister, api) ==
    IF ~ns.named THEN [result |-> FALSE, asked |-> FALSE]
    ELSE IF lister.err = "NotFound" THEN [result |-> TRUE, asked |-> FALSE]
    ELSE [result |-> lister.err = "nil" /\ ns.uid # lister.uid, asked |-> FALSE]
GCOnlyNotFound(ns, lister, api) ==
    IF ~ns.named THEN [result |-> FALSE, asked |-> FALSE]
    ELSE IF lister.err = "NotFound"
    THEN [result |-> api.err = "NotFound", asked |-> TRUE]
    ELSE [result |-> FALSE, asked |-> lister.err = "nil" /\ ns.uid # lister.uid]
GCSkipsUIDRecheck(ns, lister, api) ==
    IF ~ns.named THEN [result |-> FALSE, asked |-> FALSE]
    ELSE IF lister.err # "nil"
    THEN IF lister.err = "NotFound"
         THEN [result |-> api.err = "NotFound", asked |-> TRUE]
         ELSE [result |-> FALSE, asked |-> FALSE]
    ELSE IF ns.uid # lister.uid
         THEN [result |-> api.err = "nil", asked |-> TRUE]
         ELSE [result |-> FALSE, asked |-> FALSE]
shouldBeGarbageCollected(ns, lister, api) ==
    IF ~ns.named THEN [result |-> FALSE, asked |-> FALSE]
    ELSE IF lister.err # "nil"
    THEN IF lister.err = "NotFound"
         THEN [result |-> api.err = "NotFound", asked |-> TRUE]
         ELSE [result |-> FALSE, asked |-> FALSE]
    ELSE IF ns.uid # lister.uid
         THEN [result |-> api.err = "nil" /\ ns.uid # api.uid, asked |-> TRUE]
         ELSE [result |-> FALSE, asked |-> FALSE]

-----------------------------------------------------------------------------
(* Patroller: the VirtualCluster store, its informer and the GC check *)

\* an operator creates the VirtualCluster; every creation gets a fresh UID
CreateVC ==
    /\ vcStore = 0
    /\ nextUID <= MaxUID
    /\ vcStore' = nextUID
    /\ nextUID' = nextUID + 1
    /\ UNCHANGED <<vcLister, pNamespaces, gcCall>>
    /\ UNCHANGED otherThanGC

DeleteVC ==
    /\ vcStore # 0
    /\ vcStore' = 0
    /\ UNCHANGED <<nextUID, vcLister, pNamespaces, gcCall>>
    /\ UNCHANGED otherThanGC

\* the informer cache catches up with the store
InformerSync ==
    /\ vcLister # vcStore
    /\ vcLister' = vcStore
    /\ UNCHANGED <<vcStore, nextUID, pNamespaces, gcCall>>
    /\ UNCHANGED otherThanGC

\* the syncer creates a super-cluster namespace for the VirtualCluster,
\* annotated with its name, namespace and UID
CreateSuperNamespace(n) ==
    /\ ~pNamespaces[n].exists
    /\ vcStore # 0
    /\ \E named \in BOOLEAN :
          pNamespaces' = [pNamespaces EXCEPT
                             ![n] = [exists |-> TRUE, named |-> named, uid |-> vcStore]]
    /\ UNCHANGED <<vcStore, nextUID, vcLister, gcCall>>
    /\ UNCHANGED otherThanGC

\* a patrol handler calls shouldBeGarbageCollected(p)
GCCheck(n) ==
    /\ pNamespaces[n].exists
    /\ \E api \in {Lookup(vcStore), OtherError} :
          LET lister == Lookup(vcLister)
              r == shouldBeGarbageCollected(pNamespaces[n], lister, api)
          IN gcCall' = [made |-> TRUE, ns |-> pNamespaces[n], lister |-> lister,
                        api |-> api, asked |-> r.asked, result |-> r.result]
    /\ UNCHANGED <<vcStore, nextUID, vcLister, pNamespaces>>
    /\ UNCHANGED otherThanGC

GCInit ==
    /\ vcStore = 0
    /\ vcLister = 0
    /\ nextUID = 1
    /\ pNamespaces = [n \in SuperNamespaces |-> NoNamespace]
    /\ gcCall = NoCall

\* the patroller at rest, for the specifications of the other subsystems
GCOff == GCInit

NextGC ==
    \/ CreateVC
    \/ DeleteVC
    \/ InformerSync
    \/ \E n \in SuperNamespaces : CreateSuperNamespace(n)
    \/ \E n \in SuperNamespaces : GCCheck(n)

-----------------------------------------------------------------------------
(* Patroller: data of a patrol round *)

RootNs == "p1"        \* the super-cluster namespace annotated vc.rootNs = "true"
SyncedNs == "p2"      \* the super-cluster namespace synced from the tenant namespace

NsUIDs == {1, 2}      \* UIDs of the instances of the tenant namespace
Metas == {0, 1}       \* labels and annotations modulo the ignored keys

IsRootNs(n) == n = RootNs

NoTenantNamespace == [exists |-> FALSE, uid |-> 0, meta |-> 0]
NoExtra == [vuid |-> 0, meta |-> 0]
NoVObj == [exists |-> FALSE, uid |-> 0, meta |-> 0, owner |-> 0]

Items == {"p1", "p2", "v"}

NoGC == [asked |-> FALSE, result |-> FALSE, lister |-> NotFound, api |-> NotFound]
NoHandling == [handler |-> "none", asked |-> FALSE, result |-> FALSE, act |-> "none",
               ok |-> FALSE]
NoSeen == [item |-> "none", cache |-> 0, store |-> 0, apiErr |-> FALSE]

\* pObj of a listed super-cluster namespace
PObj(n) == [ns |-> pNamespaces[n], extra |-> IF n = SyncedNs THEN pExtra ELSE NoExtra,
            inst |-> pInst[n]]
NoPObj == [ns |-> NoNamespace, extra |-> NoExtra, inst |-> 0]

\* conversion.GetVirtualOwner(p): the cluster of the VirtualCluster whose
\* syncer created the namespace
GetVirtualOwner(p) == p.ns.uid

\* vSet.Difference(pSet, ...): a vObj and a pObj with the same key are paired
Paired(vs, ps) ==
    /\ vs.exists
    /\ ps[SyncedNs].ns.exists
    /\ GetVirtualOwner(ps[SyncedNs]) = vs.owner

\* FilterFunc: vObjs, root namespaces and namespaces with a virtual owner pass
FilterFunc(item, ps) ==
    \/ item = "v"
    \/ item # "v" /\ IsRootNs(item)
    \/ item # "v" /\ GetVirtualOwner(ps[item]) # 0

\* the handler the differ calls for an item of the two sets
HandlerOf(item, vs, ps) ==
    IF item = "v"
    THEN IF ~vs.exists \/ Paired(vs, ps) THEN "none" ELSE "add"
    ELSE IF ~ps[item].ns.exists \/ ~FilterFunc(item, ps) THEN "none"
    ELSE IF item = SyncedNs /\ Paired(vs, ps) THEN "update"
    ELSE "delete"

-----------------------------------------------------------------------------
(* Patroller: the handlers of controller.PatrollerDo *)

\* the GC check as a handler makes it
CheckGC(p, api) ==
    LET lister == Lookup(vcLister)
        r == shouldBeGarbageCollected(p.ns, lister, api)
    IN [asked |-> TRUE, result |-> r.result, lister |-> lister, api |-> api]

\* UpdateFunc: what it does to the pair (vObj, pObj)
UpdateDriftDeletes(v, p, gc, vcErr) ==
    IF gc.result \/ p.extra.vuid # v.uid \/ (~vcErr /\ p.extra.meta # v.meta)
    THEN "delete" ELSE "none"
UpdateFunc(v, p, gc, vcErr) ==
    IF gc.result \/ p.extra.vuid # v.uid THEN "delete"
    ELSE IF vcErr THEN "none"
    ELSE IF p.extra.meta # v.meta THEN "requeue"
    ELSE "none"

\* DeleteFunc: whether it makes the GC check, and what it does to pObj
DeleteFuncNoFallback(n, p, known, gc) ==
    IF IsRootNs(n)
    THEN [asked |-> TRUE, act |-> IF gc.result THEN "delete" ELSE "none"]
    ELSE IF GetVirtualOwner(p) \in known
    THEN [asked |-> FALSE, act |-> "delete"]
    ELSE [asked |-> FALSE, act |-> "none"]
DeleteFuncRootShortcut(n, p, known, gc) ==
    IF GetVirtualOwner(p) \in known THEN [asked |-> FALSE, act |-> "delete"]
    ELSE [asked |-> TRUE, act |-> IF gc.result THEN "delete" ELSE "none"]
DeleteFuncRootUnchecked(n, p, known, gc) ==
    IF IsRootNs(n) \/ GetVirtualOwner(p) \in known
    THEN [asked |-> FALSE, act |-> "delete"]
    ELSE [asked |-> TRUE, act |-> IF gc.result THEN "delete" ELSE "none"]
DeleteFunc(n, p, known, gc) ==
    IF IsRootNs(n)
    THEN [asked |-> TRUE, act |-> IF gc.result THEN "delete" ELSE "none"]
    ELSE IF GetVirtualOwner(p) \in known
    THEN [asked |-> FALSE, act |-> "delete"]
    ELSE [asked |-> TRUE, act |-> IF gc.result THEN "delete" ELSE "none"]

\* the metrics a handler's call increments
CountAlways(m, act, ok) ==
    [requeued |-> m.requeued + (IF act = "requeue" THEN 1 ELSE 0),
     deleted |-> m.deleted + (IF act = "delete" THEN 1 ELSE 0)]
Count(m, act, ok) ==
    [requeued |-> m.requeued + (IF act = "requeue" /\ ok THEN 1 ELSE 0),
     deleted |-> m.deleted + (IF act = "delete" /\ ok THEN 1 ELSE 0)]

\* deleteOptions.Preconditions = NewUIDPreconditions(ns.GetUID()): the API
\* server deletes the namespace only when its UID is the listed one
UIDPreconditionNone(listed, current) == TRUE
UIDPrecondition(listed, current) == listed = current

\* whether the handler's call succeeds: a delete needs the API server to
\* accept it and the precondition to hold
Succeeds(n, act, ok) ==
    IF act = "delete"
    THEN ok /\ pNamespaces[n].exists /\ UIDPrecondition(pSet[n].inst, pInst[n])
    ELSE ok

\* c.deleteNamespace(p) and c.MultiClusterController.RequeueObject(vObj):
\* the state after the handler's call
Applied(n, act, ok) ==
    /\ pNamespaces' = IF act = "delete" /\ ok
                      THEN [pNamespaces EXCEPT ![n] = NoNamespace]
                      ELSE pNamespaces
    /\ pExtra' = IF act = "delete" /\ ok /\ n = SyncedNs THEN NoExtra ELSE pExtra
    /\ requeues' = IF act = "requeue" /\ ok THEN requeues \cup {vSet.owner} ELSE requeues
    /\ metrics' = Count(metrics, act, ok)

Handled(item, h, gc, act, ok) ==
    /\ plog' = [plog EXCEPT ![item] = [handler |-> h, asked |-> gc.asked,
                                       result |-> gc.result, act |-> act,
                                       ok |-> ok /\ act # "none"]]
    /\ seen' = [item |-> item, cache |-> vcLister, store |-> vcStore,
                apiErr |-> gc.asked /\ gc.api.err = "error"]
    /\ todo' = todo \ {item}

\* knownClusterSet: the cluster names, less the clusters whose List failed
KnownClustersKeepsFailed(clusterNames, vOk) == clusterNames
KnownClusters(clusterNames, vOk) == IF vOk THEN clusterNames ELSE {}

\* the head of PatrollerDo: list both sides from the informer caches
PatrolList ==
    /\ ppc = "idle"
    /\ \E pOk, vOk \in BOOLEAN :
          LET clusterNames == IF loaded = 0 THEN {} ELSE {loaded}
              known == KnownClusters(clusterNames, vOk)
              vs == IF loaded # 0 /\ vOk /\ vNs.exists
                    THEN [exists |-> TRUE, uid |-> vNs.uid, meta |-> vNs.meta,
                          owner |-> loaded]
                    ELSE NoVObj
              ps == [n \in SuperNamespaces |-> PObj(n)]
          IN IF pOk
             THEN /\ pSet' = ps
                  /\ vSet' = vs
                  /\ knownClusterSet' = known
                  /\ todo' = {i \in Items : HandlerOf(i, vs, ps) # "none"}
             ELSE /\ pSet' = [n \in SuperNamespaces |-> NoPObj]
                  /\ vSet' = NoVObj
                  /\ knownClusterSet' = {}
                  /\ todo' = {}
    /\ ppc' = "diff"
    /\ plog' = [i \in Items |-> NoHandling]
    /\ seen' = NoSeen
    /\ metrics' = [requeued |-> 0, deleted |-> 0]
    /\ requeues' = {}
    /\ UNCHANGED <<loaded, vNs, pExtra>>
    /\ UNCHANGED gcVars
    /\ UNCHANGED pInst
    /\ UNCHANGED otherThanPatrol

\* d.AddFunc(vObj)
PatrolAdd ==
    /\ ppc = "diff"
    /\ "v" \in todo
    /\ HandlerOf("v", vSet, pSet) = "add"
    /\ \E ok \in BOOLEAN :
          /\ Applied(SyncedNs, "requeue", ok)
          /\ Handled("v", "add", NoGC, "requeue", ok)
    /\ UNCHANGED <<loaded, vNs, ppc, pSet, vSet, knownClusterSet>>
    /\ UNCHANGED <<vcStore, vcLister, nextUID, gcCall>>
    /\ UNCHANGED pInst
    /\ UNCHANGED otherThanPatrol

\* d.UpdateFunc(vObj, pObj)
PatrolUpdate ==
    /\ ppc = "diff"
    /\ SyncedNs \in todo
    /\ HandlerOf(SyncedNs, vSet, pSet) = "update"
    /\ \E api \in {Lookup(vcStore), OtherError}, vcErr, ok \in BOOLEAN :
          LET p == pSet[SyncedNs]
              gc == CheckGC(p, api)
              act == UpdateFunc(vSet, p, gc, vcErr)
          IN /\ Applied(SyncedNs, act, Succeeds(SyncedNs, act, ok))
             /\ Handled(SyncedNs, "update", gc, act, Succeeds(SyncedNs, act, ok))
    /\ UNCHANGED <<loaded, vNs, ppc, pSet, vSet, knownClusterSet>>
    /\ UNCHANGED <<vcStore, vcLister, nextUID, gcCall>>
    /\ UNCHANGED pInst
    /\ UNCHANGED otherThanPatrol

\* d.DeleteFunc(pObj)
PatrolDelete(n) ==
    /\ ppc = "diff"
    /\ n \in todo
    /\ HandlerOf(n, vSet, pSet) = "delete"
    /\ \E api \in {Lookup(vcStore), OtherError}, ok \in BOOLEAN :
          LET p == pSet[n]
              checked == CheckGC(p, api)
              d == DeleteFunc(n, p, knownClusterSet, checked)
              gc == IF d.asked THEN checked ELSE NoGC
          IN /\ Applied(n, d.act, Succeeds(n, d.act, ok))
             /\ Handled(n, "delete", gc, d.act, Succeeds(n, d.act, ok))
    /\ UNCHANGED <<loaded, vNs, ppc, pSet, vSet, knownClusterSet>>
    /\ UNCHANGED <<vcStore, vcLister, nextUID, gcCall>>
    /\ UNCHANGED pInst
    /\ UNCHANGED otherThanPatrol

\* PatrollerDo returns; the next round starts from fresh lists
PatrolEnd ==
    /\ ppc = "diff"
    /\ todo = {}
    /\ ppc' = "idle"
    /\ pSet' = [n \in SuperNamespaces |-> NoPObj]
    /\ vSet' = NoVObj
    /\ knownClusterSet' = {}
    /\ plog' = [i \in Items |-> NoHandling]
    /\ seen' = NoSeen
    /\ metrics' = [requeued |-> 0, deleted |-> 0]
    /\ requeues' = {}
    /\ UNCHANGED <<loaded, vNs, pExtra, todo>>
    /\ UNCHANGED gcVars
    /\ UNCHANGED pInst
    /\ UNCHANGED otherThanPatrol

-----------------------------------------------------------------------------
(* Patroller: tenant clusters, tenant namespaces and the syncer *)

\* the syncer loads the tenant cluster of the VirtualCluster in the store
LoadCluster ==
    /\ ppc = "idle"
    /\ loaded = 0
    /\ vcStore # 0
    /\ loaded' = vcStore
    /\ UNCHANGED <<vNs, pExtra, ppc, pSet, vSet, knownClusterSet, todo, plog, seen, metrics, requeues>>
    /\ UNCHANGED gcVars
    /\ UNCHANGED pInst
    /\ UNCHANGED otherThanPatrol

\* the tenant cluster is removed from the MultiClusterController
UnloadCluster ==
    /\ ppc = "idle"
    /\ loaded # 0
    /\ loaded' = 0
    /\ vNs' = NoTenantNamespace
    /\ UNCHANGED <<pExtra, ppc, pSet, vSet, knownClusterSet, todo, plog, seen, metrics, requeues>>
    /\ UNCHANGED gcVars
    /\ UNCHANGED pInst
    /\ UNCHANGED otherThanPatrol

\* the tenant creates the namespace in the loaded tenant cluster
CreateTenantNamespace ==
    /\ ppc = "idle"
    /\ loaded # 0
    /\ ~vNs.exists
    /\ \E u \in NsUIDs, m \in Metas : vNs' = [exists |-> TRUE, uid |-> u, meta |-> m]
    /\ UNCHANGED <<loaded, pExtra, ppc, pSet, vSet, knownClusterSet, todo, plog, seen, metrics, requeues>>
    /\ UNCHANGED gcVars
    /\ UNCHANGED pInst
    /\ UNCHANGED otherThanPatrol

DeleteTenantNamespace ==
    /\ ppc = "idle"
    /\ vNs.exists
    /\ vNs' = NoTenantNamespace
    /\ UNCHANGED <<loaded, pExtra, ppc, pSet, vSet, knownClusterSet, todo, plog, seen, metrics, requeues>>
    /\ UNCHANGED gcVars
    /\ UNCHANGED pInst
    /\ UNCHANGED otherThanPatrol

\* the tenant changes the labels or annotations of the namespace
ChangeTenantMeta ==
    /\ ppc = "idle"
    /\ vNs.exists
    /\ \E m \in Metas \ {vNs.meta} : vNs' = [vNs EXCEPT !.meta = m]
    /\ UNCHANGED <<loaded, pExtra, ppc, pSet, vSet, knownClusterSet, todo, plog, seen, metrics, requeues>>
    /\ UNCHANGED gcVars
    /\ UNCHANGED pInst
    /\ UNCHANGED otherThanPatrol

\* the syncer creates the super-cluster namespace of the tenant namespace,
\* annotated with the owner and the tenant namespace's UID
SyncTenantNamespace ==
    /\ ppc = "idle"
    /\ loaded # 0
    /\ vNs.exists
    /\ ~pNamespaces[SyncedNs].exists
    /\ pNamespaces' = [pNamespaces EXCEPT
                          ![SyncedNs] = [exists |-> TRUE, named |-> TRUE, uid |-> loaded]]
    /\ pExtra' = [vuid |-> vNs.uid, meta |-> vNs.meta]
    /\ UNCHANGED <<loaded, vNs, ppc, pSet, vSet, knownClusterSet, todo, plog, seen, metrics, requeues>>
    /\ UNCHANGED <<vcStore, vcLister, nextUID, gcCall>>
    /\ UNCHANGED pInst
    /\ UNCHANGED otherThanPatrol

\* between the listing and the handler the super-cluster namespace is deleted
\* and created again under the same name, with the same annotations
ReplaceSuperNamespace(n) ==
    /\ ppc = "diff"
    /\ n \in todo
    /\ pNamespaces[n].exists
    /\ pInst[n] < MaxInst
    /\ pInst' = [pInst EXCEPT ![n] = @ + 1]
    /\ UNCHANGED <<loaded, vNs, pExtra, ppc, pSet, vSet, knownClusterSet, todo, plog,
                   seen, metrics, requeues>>
    /\ UNCHANGED gcVars
    /\ UNCHANGED otherThanPatrol

PatrolInit ==
    /\ pInst = [n \in SuperNamespaces |-> 1]
    /\ loaded = 0
    /\ vNs = NoTenantNamespace
    /\ pExtra = NoExtra
    /\ ppc = "idle"
    /\ pSet = [n \in SuperNamespaces |-> NoPObj]
    /\ vSet = NoVObj
    /\ knownClusterSet = {}
    /\ todo = {}
    /\ plog = [i \in Items |-> NoHandling]
    /\ seen = NoSeen
    /\ metrics = [requeued |-> 0, deleted |-> 0]
    /\ requeues = {}

\* no patrol round in progress, for the specifications of the other subsystems
PatrolOff == PatrolInit

NextPatrol ==
    \/ CreateVC
    \/ DeleteVC
    \/ InformerSync
    \/ CreateSuperNamespace(RootNs)
    \/ LoadCluster
    \/ UnloadCluster
    \/ CreateTenantNamespace
    \/ DeleteTenantNamespace
    \/ ChangeTenantMeta
    \/ SyncTenantNamespace
    \/ PatrolList
    \/ PatrolAdd
    \/ PatrolUpdate
    \/ \E n \in SuperNamespaces : PatrolDelete(n)
    \/ PatrolEnd

-----------------------------------------------------------------------------
(* Provisioner: the etcd template and its --initial-cluster argument *)

\* strings are sequences of tokens, concatenation is \o
StsNames == {"etcd", "etcd-main"}
SvcNames == {"etcd", "etcd-peers"}
BaseArgs == {<<>>, <<(<<"--name=$(HOSTNAME)">>)>>}

DefaultETCDPeerPort == 2380

\* fmt.Sprintf("%s-%d=https://%s-%d.%s:%d", stsName, i, stsName, i, svcName, port)
PeerAddr(stsName, i, svcName) ==
    <<stsName, "-", ToString(i), "=https://", stsName, "-", ToString(i), ".",
      svcName, ":", ToString(DefaultETCDPeerPort)>>

\* the loop of genInitialClusterArgs from index i on, argsVal so far
RECURSIVE InitialClusterLoopTrailing(_, _, _, _, _)
InitialClusterLoopTrailing(i, replicas, stsName, svcName, argsVal) ==
    IF ~(i < replicas) THEN argsVal
    ELSE InitialClusterLoopTrailing(i + 1, replicas, stsName, svcName,
                                    argsVal \o PeerAddr(stsName, i, svcName) \o <<",">>)

RECURSIVE InitialClusterLoop(_, _, _, _, _)
InitialClusterLoop(i, replicas, stsName, svcName, argsVal) ==
    IF ~(i < replicas) THEN argsVal
    ELSE IF i = replicas - 1
         THEN argsVal \o PeerAddr(stsName, i, svcName)
         ELSE InitialClusterLoop(i + 1, replicas, stsName, svcName,
                                 argsVal \o PeerAddr(stsName, i, svcName) \o <<",">>)

genInitialClusterArgsTrailing(replicas, stsName, svcName) ==
    InitialClusterLoopTrailing(0, replicas, stsName, svcName, <<>>)
genInitialClusterArgs(replicas, stsName, svcName) ==
    InitialClusterLoop(0, replicas, stsName, svcName, <<>>)

NoBundle == [replicas |-> 0, sts |-> "", svc |-> "", base |-> <<>>, args |-> <<>>]

\* mpn.Get(cvObjectKey, cv): the run works on its own copy of the ClusterVersion
GetETCDBundle ==
    /\ epc = "none"
    /\ eruns < MaxRuns
    /\ \E n \in 0..MaxReplicas, sts \in StsNames, svc \in SvcNames, base \in BaseArgs :
          etcdBdl' = [replicas |-> n, sts |-> sts, svc |-> svc, base |-> base,
                      args |-> base]
    /\ epc' = "fetched"
    /\ eruns' = eruns + 1
    /\ UNCHANGED otherThanETCD

\* deployComponent(vc, cv.Spec.ETCD): complementETCDTemplate
ComplementETCD ==
    /\ epc = "fetched"
    /\ LET icaVal == genInitialClusterArgs(etcdBdl.replicas, etcdBdl.sts, etcdBdl.svc) IN
       etcdBdl' = [etcdBdl EXCEPT !.args = @ \o <<(<<"--initial-cluster">>), icaVal>>]
    /\ epc' = "complemented"
    /\ UNCHANGED eruns
    /\ UNCHANGED otherThanETCD

\* CreateVirtualCluster returns, before or after the etcd deploy step
ReturnETCD ==
    /\ epc \in {"fetched", "complemented"}
    /\ epc' = "none"
    /\ etcdBdl' = NoBundle
    /\ UNCHANGED eruns
    /\ UNCHANGED otherThanETCD

ETCDInit ==
    /\ etcdBdl = NoBundle
    /\ epc = "none"
    /\ eruns = 0

ETCDOff ==
    /\ etcdBdl = NoBundle
    /\ epc = "none"
    /\ eruns = MaxRuns

NextETCD ==
    \/ GetETCDBundle
    \/ ComplementETCD
    \/ ReturnETCD

-----------------------------------------------------------------------------
(* Namespace scheduler: controller.updateSchedulingResult *)

\* retry.DefaultBackoff.Steps
Steps == 4

\* the values of the placementMap argument: nil, or a placement map
Targets == {"nil", "c1:1", "c1:2"}

\* a namespace object: resourceVersion, the scheduled.placements annotation
\* ("nil" when absent), and the rest of its labels and annotations
NsObject(rv, placed, other) == [rv |-> rv, placed |-> placed, other |-> other]

NoClone == NsObject(0, "nil", 0)

\* the API server rejects an Update whose resourceVersion is not the current one
ConflictsNever(obj, cur) == FALSE
Conflicts(obj, cur) == obj.rv # cur.rv

\* RetryOnConflict retries on conflict errors only
RetriableAlways(err) == TRUE
Retriable(err) == err = "conflict"

\* delete(clone.Annotations, key) or clone.Annotations[key] = placement
Apply(obj, t) == [obj EXCEPT !.placed = t]

\* Reconcile calls updateSchedulingResult with the namespace it read;
\* GetClusterClient may fail
UpdBegin ==
    /\ upc = "idle"
    /\ tns.rv < 2 * MaxWrites
    /\ \E t \in Targets :
          /\ target' = t
          /\ \/ /\ clone' = informerNs
                /\ upc' = "update"
                /\ uerr' = "nil"
             \/ /\ clone' = NoClone
                /\ upc' = "returned"
                /\ uerr' = "error"
    /\ tries' = 0
    /\ UNCHANGED <<tns, informerNs>>
    /\ UNCHANGED otherThanUpd

\* one attempt: the change is applied to clone and clone is sent as an Update
UpdUpdate ==
    /\ upc = "update"
    /\ LET obj == Apply(clone, target) IN
       /\ clone' = obj
       /\ \/ /\ Conflicts(obj, tns)
             /\ uerr' = "conflict"
             /\ upc' = "refetch"
             /\ UNCHANGED tns
          \/ /\ ~Conflicts(obj, tns)
             /\ tns' = [obj EXCEPT !.rv = tns.rv + 1]
             /\ uerr' = "nil"
             /\ upc' = "returned"
          \/ /\ uerr' = "error"
             /\ upc' = "refetch"
             /\ UNCHANGED tns
    /\ tries' = tries + 1
    /\ UNCHANGED <<informerNs, target>>
    /\ UNCHANGED otherThanUpd

\* after a failed Update: Get the namespace, keep clone when the Get fails;
\* then RetryOnConflict retries or returns the error
UpdRefetch ==
    /\ upc = "refetch"
    /\ \/ clone' = tns
       \/ clone' = clone
    /\ upc' = IF Retriable(uerr) /\ tries < Steps THEN "update" ELSE "returned"
    /\ UNCHANGED <<tns, informerNs, target, tries, uerr>>
    /\ UNCHANGED otherThanUpd

\* updateSchedulingResult has returned
UpdReturn ==
    /\ upc = "returned"
    /\ upc' = "idle"
    /\ clone' = NoClone
    /\ target' = "nil"
    /\ tries' = 0
    /\ uerr' = "nil"
    /\ UNCHANGED <<tns, informerNs>>
    /\ UNCHANGED otherThanUpd

\* another writer updates other labels or annotations of the namespace
ConcurrentWrite ==
    /\ tns.other < MaxWrites
    /\ tns' = [tns EXCEPT !.rv = @ + 1, !.other = @ + 1]
    /\ UNCHANGED <<informerNs, clone, target, upc, tries, uerr>>
    /\ UNCHANGED otherThanUpd

\* the informer delivers the current object
InformerDeliver ==
    /\ informerNs # tns
    /\ informerNs' = tns
    /\ UNCHANGED <<tns, clone, target, upc, tries, uerr>>
    /\ UNCHANGED otherThanUpd

UpdInit ==
    /\ tns = NsObject(1, "nil", 0)
    /\ informerNs = NsObject(1, "nil", 0)
    /\ clone = NoClone
    /\ target = "nil"
    /\ upc = "idle"
    /\ tries = 0
    /\ uerr = "nil"

\* no update in progress, for the specifications of the other subsystems
UpdOff ==
    /\ tns = NsObject(1, "nil", 0)
    /\ informerNs = NsObject(1, "nil", 0)
    /\ clone = NoClone
    /\ target = "nil"
    /\ upc = "off"
    /\ tries = 0
    /\ uerr = "nil"

NextUpd ==
    \/ UpdBegin
    \/ UpdUpdate
    \/ UpdRefetch
    \/ UpdReturn
    \/ ConcurrentWrite
    \/ InformerDeliver

-----------------------------------------------------------------------------
(* Specifications *)

\* each specification runs one subsystem and holds the others at rest
InitProv == ProvInit /\ SchedOff /\ GCOff /\ PatrolOff /\ ETCDOff /\ UpdOff
InitSched == SchedInit /\ ProvOff /\ GCOff /\ PatrolOff /\ ETCDOff /\ UpdOff
InitGC == GCInit /\ ProvOff /\ SchedOff /\ PatrolOff /\ ETCDOff /\ UpdOff
InitPatrol == PatrolInit /\ GCInit /\ ProvOff /\ SchedOff /\ ETCDOff /\ UpdOff
InitETCD == ETCDInit /\ ProvOff /\ SchedOff /\ GCOff /\ PatrolOff /\ UpdOff
InitUpd == UpdInit /\ ProvOff /\ SchedOff /\ GCOff /\ PatrolOff /\ ETCDOff

SpecProv == InitProv /\ [][NextProv]_vars

\* termination of a run: the worker goroutine keeps taking its next step,
\* the poll timer of the readiness wait included; ClusterVersions with a
\* service on the etcd and API server bundles
Worker ==
    \/ GetClusterVersion
    \/ CreateRootNS
    \/ CreateAPIServerService
    \/ MintPKI
    \/ CreateSecret
    \/ Complement
    \/ CreateStatefulSet
    \/ CreateService
    \/ WaitStatefulSetReady

InitTerm ==
    /\ InitProv
    /\ cv.etcdSvc /\ ~cv.cmSvc
    /\ cv.apiSvc # "none"
    /\ cv.alias \in {"none", "apiserver"}

SpecTerm == InitTerm /\ [][NextProv]_vars /\ WF_vars(Worker)

SpecETCD == InitETCD /\ [][NextETCD]_vars

SpecUpd == InitUpd /\ [][NextUpd]_vars

SpecSched == InitSched /\ [][NextSched]_vars

SpecGC == InitGC /\ [][NextGC]_vars

SpecPatrol == InitPatrol /\ [][NextPatrol]_vars

\* the patroller runs periodically, the informer keeps delivering, and the
\* lists, lookups and deletes of a round do not fail for ever
GoodList == PatrolList /\ pSet' = [n \in SuperNamespaces |-> PObj(n)]
GoodHandling(n) ==
    /\ PatrolDelete(n) \/ (n = SyncedNs /\ PatrolUpdate)
    /\ ~seen'.apiErr
    /\ plog'[n].act = "delete" => plog'[n].ok
ReapFairness ==
    /\ SF_vars(ppc = "idle" /\ InformerSync)
    /\ SF_vars(GoodList)
    /\ WF_vars(PatrolAdd)
    /\ WF_vars(PatrolEnd)
    /\ \A n \in SuperNamespaces : SF_vars(GoodHandling(n))

\* orphan reaping: VirtualClusters come and go and the informer delivers
\* between the rounds; the tenant namespace keeps its UID and metadata
NextReap ==
    \/ ppc = "idle" /\ CreateVC
    \/ ppc = "idle" /\ DeleteVC
    \/ ppc = "idle" /\ InformerSync
    \/ ppc = "idle" /\ CreateSuperNamespace(RootNs)
    \/ LoadCluster
    \/ UnloadCluster
    \/ CreateTenantNamespace /\ vNs'.uid = 1 /\ vNs'.meta = 0
    \/ SyncTenantNamespace
    \/ PatrolList
    \/ PatrolAdd
    \/ PatrolUpdate
    \/ \E n \in SuperNamespaces : PatrolDelete(n)
    \/ PatrolEnd

SpecReap == InitPatrol /\ [][NextReap]_vars /\ ReapFairness

\* the same rounds, with super-cluster namespaces replaced under a round
NextRace ==
    \/ NextReap
    \/ \E n \in SuperNamespaces : ReplaceSuperNamespace(n)

SpecRace == InitPatrol /\ [][NextRace]_vars

-----------------------------------------------------------------------------
(* Provisioner: properties *)

Ops(t) == [i \in 1..Len(t) |-> <<t[i].op, t[i].arg>>]

RECURSIVE SecretOps(_)
SecretOps(i) ==
    IF i > Len(SecretOrder) THEN <<>>
    ELSE <<(<<"create-secret", SecretOrder[i]>>)>> \o SecretOps(i + 1)

ComponentOps(name, withSvc) ==
    <<(<<"create-sts", name>>)>>
        \o (IF withSvc THEN <<(<<"create-svc", name>>)>> ELSE <<>>)
        \o <<(<<"wait-ready", name>>)>>

\* the fixed order of side effects of one run, for a ClusterVersion c
FixedOrder(c) ==
    <<(<<"create-ns", "-">>)>>
        \o (IF c.apiSvc = "ClusterIP" THEN <<(<<"create-svc-early", "apiserver">>)>> ELSE <<>>)
        \o <<(<<"mint", "-">>)>>
        \o SecretOps(1)
        \o ComponentOps("etcd", c.etcdSvc)
        \o ComponentOps("apiserver", c.apiSvc = "NodePort")
        \o ComponentOps("controller-manager", c.cmSvc)

Succeeded(e) == e.err \in {"nil", "AlreadyExists"}

\* C1: the side effects of a run are issued in the fixed order (root
\* namespace, ClusterIP service, PKI and secrets, etcd until Ready, API
\* server until Ready, controller-manager until Ready), each after the
\* previous one succeeded; workloads only once all secrets are stored.
C1_FixedOrder ==
    /\ Len(trace) <= Len(FixedOrder(cv))
    /\ Ops(trace) = SubSeq(FixedOrder(cv), 1, Len(trace))
    /\ \A i \in 1..Len(trace) : i < Len(trace) => Succeeded(trace[i])
    /\ \A i \in 1..Len(trace) :
          trace[i].op = "create-sts" => \A n \in SecretNames : secrets[n] # NoSecret

C1_Witness ==
    /\ result = "ok"
    /\ IsClusterIP(cv)
    /\ Len(trace) = Len(FixedOrder(cv))
    /\ trace[Len(trace)] = Ev("wait-ready", "controller-manager", "nil")

LeafSecrets == {"apiserver-ca", "etcd-ca", "front-proxy-ca",
                "controller-manager-kubeconfig", "admin-kubeconfig"}

\* C2: every stored leaf certificate and kubeconfig was issued by the root
\* CA stored in the root-ca secret of the same namespace.
C2_RootOfTrust ==
    \A n \in LeafSecrets :
        secrets[n] # NoSecret =>
            /\ secrets["root-ca"] # NoSecret
            /\ secrets[n].issuer = secrets["root-ca"].key

\* C3: a run never fails on AlreadyExists, and a run that returns success
\* leaves exactly one root namespace, each of the seven secrets, one
\* workload per component and one service per bundle that has one.
C3_IdempotentRestart ==
    /\ result # "AlreadyExists"
    /\ result = "ok" =>
          /\ rootNS
          /\ \A n \in SecretNames : secrets[n] # NoSecret
          /\ stss = ComponentSet
          /\ ready = ComponentSet
          /\ \A name \in ComponentSet :
                Cardinality({s \in svcs : s[1] = name})
                    = IF HasService(name, cv) THEN 1 ELSE 0

C3_Witness ==
    /\ runs = 2
    /\ result = "ok"
    /\ \E i \in 1..Len(trace) : trace[i].err = "AlreadyExists"
    /\ \E i \in 1..Len(trace) : trace[i].op = "create-secret" /\ trace[i].err = "nil"

\* C4: once a secret exists, no step of any run changes its content.
C4_SecretsNeverRewritten ==
    [][\A n \in SecretNames : secrets[n] # NoSecret => secrets'[n] = secrets[n]]_vars

C4_Witness ==
    /\ runs = 2
    /\ pc = "complement"
    /\ caGroup.root = 2
    /\ secrets["apiserver-ca"].key = 1
    /\ secrets["apiserver-ca"].addr = ""
    /\ caGroup.ip = "ip"
    /\ secrets["serviceaccount-rsa"].key = 2

\* C16: a step that returns an error other than AlreadyExists is the last
\* side effect of its run: the run returns that error and issues no create
\* of a later step.
C16_ShortCircuit ==
    \A i \in 1..Len(trace) :
        ~Succeeded(trace[i]) =>
            /\ i = Len(trace)
            /\ pc = "idle"
            /\ result = trace[i].err

C16_Witness ==
    /\ pc = "idle"
    /\ result = "error"
    /\ Len(trace) > 3
    /\ trace[Len(trace)] = Ev("create-secret", "etcd-ca", "error")
    /\ secrets["apiserver-ca"] # NoSecret
    /\ secrets["etcd-ca"] = NoSecret
    /\ stss = {}

\* positions in the run's trace of the creates of the API server service
APISvcCreates ==
    {i \in 1..Len(trace) :
        trace[i].op \in {"create-svc-early", "create-svc"} /\ trace[i].arg = "apiserver"}

Position(op, arg) == {i \in 1..Len(trace) : trace[i].op = op /\ trace[i].arg = arg}

\* C17: a run issues the create of the API server service at most once, and
\* exactly once when it succeeds and the bundle has a service: ahead of the
\* PKI minting when the type is ClusterIP, in the apiserver deploy step
\* after the workload create for another type.
C17_APIServiceOnce ==
    /\ Cardinality(APISvcCreates) <= 1
    /\ result = "ok" =>
          Cardinality(APISvcCreates) = IF HasService("apiserver", cv) THEN 1 ELSE 0
    /\ \A i \in APISvcCreates :
          IF IsClusterIP(cv)
          THEN /\ trace[i].op = "create-svc-early"
               /\ \A j \in Position("mint", "-") : i < j
               /\ \A j \in Position("create-sts", "apiserver") : i < j
          ELSE /\ trace[i].op = "create-svc"
               /\ \E j \in Position("create-sts", "apiserver") : j = i - 1
               /\ \E j \in Position("mint", "-") : j < i

C17_Witness ==
    /\ result = "ok"
    /\ cv.apiSvc = "NodePort"
    /\ Cardinality(APISvcCreates) = 1
    /\ \E i \in APISvcCreates :
          /\ trace[i] = Ev("create-svc", "apiserver", "nil")
          /\ trace[i - 1].op = "create-sts"
    /\ <<"apiserver", "root">> \in svcs

\* C18: a ClusterIP run whose cluster IP lookup failed mints the PKI with an
\* empty cluster IP and goes on with createPKISecrets; when such a run ends
\* with an error, the error is that of a later step.
C18_ClusterIPOptional ==
    /\ \A i \in Position("mint", "-") :
          (trace[i].err = "error") => faults > 0
    /\ (IsClusterIP(cv) /\ caGroup.lookup = "error") =>
          /\ caGroup.ip = ""
          /\ \E i \in Position("mint", "-") :
                /\ trace[i].err = "nil"
                /\ i = Len(trace) => (pc = "secrets" \/ result = "crashed")
                /\ (pc = "idle" /\ result \notin {"ok", "crashed", "panic"}) =>
                      (i < Len(trace) /\ result = trace[Len(trace)].err)

C18_Witness ==
    /\ IsClusterIP(cv)
    /\ caGroup.lookup = "error"
    /\ result = "ok"
    /\ runs = 1
    /\ secrets["apiserver-ca"].addr = ""
    /\ ready = ComponentSet

\* the run has minted its PKI
Minted == caGroup.root # 0

\* the secrets the current run stored
StoredByRun == {trace[i].arg : i \in {j \in 1..Len(trace) :
                   trace[j].op = "create-secret" /\ trace[j].err = "nil"}}

\* the cluster IP is in the certificate and is the server of both kubeconfigs
AddressIsIP ==
    /\ caGroup.ip # ""
    /\ caGroup.final = caGroup.ip
    /\ "apiserver-ca" \in StoredByRun => secrets["apiserver-ca"].addr = caGroup.ip
    /\ \A n \in {"controller-manager-kubeconfig", "admin-kubeconfig"} \cap StoredByRun :
          secrets[n].addr = caGroup.ip

\* DNS SANs only, and both kubeconfigs point at the API server DNS name
AddressIsDNS ==
    /\ caGroup.ip = ""
    /\ caGroup.final = "dns"
    /\ "apiserver-ca" \in StoredByRun => secrets["apiserver-ca"].addr = ""
    /\ \A n \in {"controller-manager-kubeconfig", "admin-kubeconfig"} \cap StoredByRun :
          secrets[n].addr = "dns"

GotIP == IsClusterIP(cv) /\ caGroup.lookup = "nil" /\ caGroup.ip # ""

\* C19 as stated: the cluster IP is used iff the type is ClusterIP and a
\* non-empty IP was obtained; in every other case no lookup is made and the
\* DNS name is used.
C19_NoLookupOtherwise ==
    Minted =>
        /\ AddressIsIP <=> GotIP
        /\ ~GotIP => (caGroup.lookup = "skipped" /\ AddressIsDNS)

\* C19 amended: the cluster IP is used iff the type is ClusterIP and a
\* non-empty IP was obtained, and the DNS name in every other case; the
\* lookup is made exactly when the type is ClusterIP, also when it yields no IP.
C19_AddressConsistent ==
    Minted =>
        /\ AddressIsIP <=> GotIP
        /\ ~GotIP => AddressIsDNS
        /\ caGroup.lookup = "skipped" <=> ~IsClusterIP(cv)

C19_Witness ==
    /\ Minted
    /\ GotIP
    /\ AddressIsIP
    /\ {"apiserver-ca", "controller-manager-kubeconfig", "admin-kubeconfig"}
           \subseteq StoredByRun
    /\ secrets["admin-kubeconfig"].addr = "ip"

\* C20: when the run returned success, the workload created from each
\* bundle exists and is Ready, and each readiness wait of a run observed the
\* object its deploy step created.
C20_ReadyWorkloads ==
    /\ result = "ok" =>
          \A name \in ComponentSet :
              StsObject(name, cv) \in stss /\ StsObject(name, cv) \in ready
    /\ \A i \in 1..Len(trace) :
          trace[i].op = "wait-ready" =>
              WaitObject(trace[i].arg, cv) = StsObject(trace[i].arg, cv)

\* C21: a bundle's service is optional: deployComponent of a component whose
\* bundle has no service creates the workload, issues no service create and
\* does not fail before the readiness wait; a service that is present is
\* created after the workload.
C21_ServiceOptional ==
    /\ \A i \in 1..Len(trace) :
          trace[i].op = "create-svc" =>
              /\ HasService(trace[i].arg, cv)
              /\ \E j \in 1..(i - 1) :
                    trace[j].op = "create-sts" /\ trace[j].arg = trace[i].arg
    /\ \A name \in ComponentSet :
          (compIdx > 0 /\ DeployOrder[compIdx] = name /\ ~HasService(name, cv))
              => result # "panic"

\* the n peers of the etcd cluster, joined by single commas
RECURSIVE JoinedPeers(_, _, _)
JoinedPeers(n, sts, svc) ==
    IF n = 0 THEN <<>>
    ELSE IF n = 1 THEN PeerAddr(sts, 0, svc)
    ELSE JoinedPeers(n - 1, sts, svc) \o <<",">> \o PeerAddr(sts, n - 1, svc)

Occurrences(seq, x) == Cardinality({i \in 1..Len(seq) : seq[i] = x})

\* C22: the --initial-cluster value is the n peers
\* <sts>-<i>=https://<sts>-<i>.<svc>:2380 in index order, separated by single
\* commas, without a leading or trailing comma, empty for n = 0; the run
\* appends the argument to the etcd container's arguments exactly once.
C22_InitialCluster ==
    epc = "complemented" =>
        LET val == genInitialClusterArgs(etcdBdl.replicas, etcdBdl.sts, etcdBdl.svc) IN
        /\ val = JoinedPeers(etcdBdl.replicas, etcdBdl.sts, etcdBdl.svc)
        /\ Occurrences(val, ",") = (IF etcdBdl.replicas = 0 THEN 0 ELSE etcdBdl.replicas - 1)
        /\ val # <<>> => val[1] # "," /\ val[Len(val)] # ","
        /\ etcdBdl.args = etcdBdl.base \o <<(<<"--initial-cluster">>), val>>
        /\ Occurrences(etcdBdl.args, <<"--initial-cluster">>) = 1

C22_Witness ==
    /\ epc = "complemented"
    /\ eruns = MaxRuns
    /\ etcdBdl.replicas = MaxReplicas
    /\ etcdBdl.sts # etcdBdl.svc
    /\ etcdBdl.base # <<>>
    /\ Len(etcdBdl.args) = 3

\* C29: a run whose ClusterVersion cannot be fetched returns the
\* ClusterVersion-not-found error and has created nothing: no root namespace,
\* no service, no secret and no workload.
C29_NothingWithoutClusterVersion ==
    result = "cv-not-found" =>
        /\ pc = "idle"
        /\ trace = <<>>
        /\ runs = 1 =>
              /\ ~rootNS
              /\ svcs = {}
              /\ stss = {}
              /\ \A n \in SecretNames : secrets[n] = NoSecret

C29_Witness ==
    /\ result = "cv-not-found"
    /\ pc = "idle"
    /\ runs = 1
    /\ ~rootNS

DeployIndex(name) == CHOOSE i \in 1..Len(DeployOrder) : DeployOrder[i] = name

\* C30: every run ends; a readiness wait on a workload that is not Ready
\* ends with a timeout error when the timeout has elapsed, the run returns
\* that error, and no later component is deployed.
C30_Terminates ==
    /\ (pc # "idle") ~> (pc = "idle")
    /\ [](result = "timeout" =>
            /\ pc = "idle"
            /\ trace[Len(trace)] = Ev("wait-ready", DeployOrder[compIdx], "timeout")
            /\ \A i \in 1..Len(trace) :
                  trace[i].op \in {"create-sts", "create-svc", "wait-ready"} =>
                      DeployIndex(trace[i].arg) <= compIdx)
    /\ [][(pc = "wait" /\ result' = "timeout") =>
            /\ WaitObject(DeployOrder[compIdx], cv) \notin ready
            /\ polls >= MaxPolls]_vars

C30_Witness ==
    /\ result = "timeout"
    /\ pc = "idle"
    /\ compIdx = 2
    /\ stss = {"etcd", "apiserver"}
    /\ ready = {"etcd"}
    /\ trace[Len(trace)] = Ev("wait-ready", "apiserver", "timeout")

\* C34: after DeleteVirtualCluster returned success, nothing that provisioning
\* created is left: no root namespace, no PKI secret, no component workload
\* and no service.
C34_DeleteRemovesCreated ==
    delResult = "nil" =>
        /\ ~rootNS
        /\ \A n \in SecretNames : secrets[n] = NoSecret
        /\ stss = {}
        /\ svcs = {}

-----------------------------------------------------------------------------
(* Namespace scheduler: properties *)

HasCall(ns, c) == \E i \in 1..Len(rtrace[ns]) : rtrace[ns][i] = c

EngineOps == {"Schedule", "DeSchedule", "Ensure"}

\* C5 as stated: every annotation write of a Reconcile comes after an engine
\* operation of that Reconcile committed to the cache, and no write follows a
\* failed ScheduleNamespace.
C5_WriteAfterCommit ==
    \A ns \in NsKeys :
        /\ \A i \in 1..Len(rtrace[ns]) :
              rtrace[ns][i].op = "Update" =>
                  \E j \in 1..(i - 1) :
                      rtrace[ns][j].op \in EngineOps /\ rtrace[ns][j].ok
        /\ HasCall(ns, Call("Schedule", "-", FALSE)) =>
              \A i \in 1..Len(rtrace[ns]) : rtrace[ns][i].op # "Update"

\* C5 amended: a placements annotation is set only after ScheduleNamespace of
\* the same Reconcile committed, no write follows a failed ScheduleNamespace,
\* and with expected slices = 0 the annotation is removed first and
\* DeScheduleNamespace is called only after the removal succeeded.
C5_PublishAfterReserve ==
    \A ns \in NsKeys :
        /\ \A i \in 1..Len(rtrace[ns]) :
              rtrace[ns][i].op = "Update" =>
                  \/ /\ rtrace[ns][i].arg = "set"
                     /\ \E j \in 1..(i - 1) :
                           rtrace[ns][j] = Call("Schedule", "-", TRUE)
                  \/ /\ rtrace[ns][i].arg = "remove"
                     /\ i = 1
                     /\ expect[ns] = 0
        /\ HasCall(ns, Call("Schedule", "-", FALSE)) =>
              \A i \in 1..Len(rtrace[ns]) : rtrace[ns][i].op # "Update"
        /\ \A i \in 1..Len(rtrace[ns]) :
              (rtrace[ns][i].op = "DeSchedule" /\ expect[ns] = 0) =>
                  i = 2 /\ rtrace[ns][1] = Call("Update", "remove", TRUE)

C5_Witness ==
    \E ns, m \in NsKeys :
        /\ rtrace[ns] = <<Call("Schedule", "-", TRUE), Call("Update", "set", TRUE),
                          Call("Eventf", "Scheduled", TRUE)>>
        /\ annot[ns] = Annotation(ret[ns])
        /\ rtrace[m] = <<Call("Schedule", "-", FALSE), Call("Eventf", "Failed", TRUE)>>
        /\ rresult[m] = "err"

ExpectedSlices(ns) ==
    IF expect[ns] >= 0 THEN expect[ns] ELSE GetLeastFitSliceNum(quota[ns], Slice)

\* C7 as stated: whenever Reconcile returns without error, a placements
\* annotation on the namespace sums to the expected slice count of its quota.
C7_SumOnEveryReturn ==
    \A ns \in NsKeys :
        (rpc[ns] = "done" /\ rresult[ns] \in {"ok", "requeue"} /\ annot[ns].present) =>
            NumSlices(annot[ns].p) = ExpectedSlices(ns)

\* C7 amended: whenever Reconcile returns without error and without asking for
\* a re-queue (the owning VirtualCluster is not dirty), a placements annotation
\* on the namespace sums to the expected slice count of the quota it read.
C7_SumOnReturn ==
    \A ns \in NsKeys :
        (rpc[ns] = "done" /\ rresult[ns] = "ok" /\ annot[ns].present) =>
            NumSlices(annot[ns].p) = ExpectedSlices(ns)

C7_Witness ==
    \E ns \in NsKeys :
        /\ rpc[ns] = "done"
        /\ rresult[ns] = "ok"
        /\ annot[ns].present
        /\ expect[ns] = 2
        /\ quota[ns] = [cpu |-> 3, mem |-> 4]
        /\ placements[ns] # ZeroP
        /\ NumSlices(placements[ns]) = 1
        /\ NumSlices(annot[ns].p) = 2

ReservedIn(c) == SumOver([m \in NsKeys |-> cache[m][c]], NsKeys)

\* C8: the slices all tenant namespaces reserve in a super cluster never
\* exceed its capacity, under any interleaving of Reconciles of distinct keys.
C8_CapacityRespected == \A c \in Clusters : ReservedIn(c) <= Capacity[c]

C8_Witness ==
    /\ \A c \in Clusters : ReservedIn(c) = Capacity[c]
    /\ \A ns \in NsKeys : cache[ns] # ZeroP
    /\ \E ns \in NsKeys : HasCall(ns, Call("Schedule", "-", FALSE))

\* C23: a Reconcile that finds the owning VirtualCluster in the dirty set
\* calls no engine operation, writes no annotation, emits no event and
\* returns without error, asking for a re-queue.
C23_DirtyRequeues ==
    [][\A ns \in NsKeys :
          (RecBegin(ns) /\ dirty /\ ~HasCall(ns, Call("GetOwnerInfo", "-", FALSE))')
              => /\ rpc'[ns] = "done"
                 /\ rresult'[ns] = "requeue"
                 /\ rtrace'[ns] = <<>>
                 /\ annot' = annot
                 /\ cache' = cache]_vars

C23_Witness ==
    \E ns \in NsKeys :
        /\ dirty
        /\ rpc[ns] = "done"
        /\ rresult[ns] = "requeue"
        /\ nsExists[ns]
        /\ annot[ns].present
        /\ GetLeastFitSliceNum(quota[ns], Slice) # NumSlices(annot[ns].p)

C25_QuotaGone ==
    \A ns \in NsKeys :
        (rpc[ns] = "done" /\ rresult[ns] = "ok" /\ expect[ns] = 0) =>
            /\ ~annot[ns].present
            /\ cache[ns] = ZeroP

C25_Witness ==
    \E ns, m \in NsKeys :
        /\ rpc[ns] = "done" /\ rresult[ns] = "ok" /\ expect[ns] = 0
        /\ placements[ns] # ZeroP
        /\ nsExists[ns]
        /\ rtrace[ns] = <<Call("Update", "remove", TRUE), Call("DeSchedule", "-", TRUE)>>
        /\ rpc[m] = "done" /\ rresult[m] = "ok" /\ expect[m] = 0
        /\ placements[m] = ZeroP
        /\ quota[m] = [cpu |-> 2, mem |-> 1]

\* C26: when the slices of the current annotation sum to the non-zero
\* expected slice count, Reconcile only calls EnsureNamespacePlacements with
\* those placements: no ScheduleNamespace, no annotation write, no event.
C26_EnsureOnly ==
    \A ns \in NsKeys :
        (rpc[ns] = "done" /\ expect[ns] > 0 /\ NumSlices(placements[ns]) = expect[ns]) =>
            \E ok \in BOOLEAN :
                /\ rtrace[ns] = <<Call("Ensure", "-", ok)>>
                /\ ok => cache[ns] = placements[ns]
                /\ rresult[ns] = IF ok THEN "ok" ELSE "err"

C26_Witness ==
    \E ns, m \in NsKeys :
        /\ rpc[ns] = "done" /\ expect[ns] = 2
        /\ NumSlices(placements[ns]) = 2
        /\ rtrace[ns] = <<Call("Ensure", "-", TRUE)>>
        /\ cache[ns] = placements[ns]
        /\ annot[ns].p = placements[ns]
        /\ rpc[m] = "done" /\ expect[m] > 0
        /\ rtrace[m] = <<Call("Ensure", "-", FALSE)>>

Events(ns) == {i \in 1..Len(rtrace[ns]) : rtrace[ns][i].op = "Eventf"}

HasEvent(ns, kind) == \E i \in Events(ns) : rtrace[ns][i].arg = kind

\* C27: a Reconcile emits at most one event: Scheduled if and only if
\* ScheduleNamespace succeeded and the new annotation was written, Failed if
\* and only if ScheduleNamespace returned an error, which Reconcile returns.
C27_OneEvent ==
    \A ns \in NsKeys :
        /\ Cardinality(Events(ns)) <= 1
        /\ HasEvent(ns, "Scheduled") <=>
              /\ HasCall(ns, Call("Schedule", "-", TRUE))
              /\ HasCall(ns, Call("Update", "set", TRUE))
        /\ HasEvent(ns, "Failed") <=> HasCall(ns, Call("Schedule", "-", FALSE))
        /\ HasEvent(ns, "Failed") => rpc[ns] = "done" /\ rresult[ns] = "err"

C27_Witness ==
    \E ns, m \in NsKeys :
        /\ rpc[ns] = "done" /\ HasEvent(ns, "Scheduled") /\ rresult[ns] = "ok"
        /\ rpc[m] = "done" /\ HasEvent(m, "Failed") /\ rresult[m] = "err"
        /\ rtrace[m] = <<Call("Schedule", "-", FALSE), Call("Eventf", "Failed", TRUE)>>

UpdateSucceeds == upc = "update" /\ upc' = "returned" /\ uerr' = "nil"

\* C28: the annotation is written with optimistic concurrency: an Update
\* succeeds only on the current object, so after a successful
\* updateSchedulingResult the annotation is the new placement map and what
\* another writer changed in the other labels and annotations is kept; a
\* conflict is retried on the re-fetched object, any other error is returned
\* without retry.
C28_OptimisticUpdate ==
    /\ [][UpdateSucceeds =>
            /\ clone.rv = tns.rv
            /\ tns'.placed = target
            /\ tns'.other = tns.other]_vars
    /\ [][(upc = "refetch" /\ upc' # upc) =>
            /\ uerr = "error" => upc' = "returned" /\ uerr' = "error"
            /\ (uerr = "conflict" /\ tries < Steps) => upc' = "update"
            /\ clone' \in {clone, tns}]_vars

C28_Witness ==
    /\ upc = "returned"
    /\ uerr = "nil"
    /\ tries > 1
    /\ target # "nil"
    /\ tns.placed = target
    /\ tns.other > informerNs.other

-----------------------------------------------------------------------------
(* Patroller: properties *)

\* what an authoritative lookup says about the owner of the checked namespace
AuthoritativeGone(call) ==
    \/ call.api.err = "NotFound"
    \/ call.api.err = "nil" /\ call.api.uid # call.ns.uid

\* C9 as stated: the result is true iff an authoritative lookup of the owner
\* returns NotFound or a different UID, whatever the informer cache holds.
C9_IffAuthoritative ==
    (gcCall.made /\ gcCall.ns.named) => (gcCall.result <=> AuthoritativeGone(gcCall))

\* C9 amended: the result is true iff the informer cache and the
\* authoritative lookup agree: the cache has no VirtualCluster and the lookup
\* returns NotFound, or the cache has one with another UID and the lookup
\* returns one with another UID.
C9_IffBothAgree ==
    gcCall.made =>
        (gcCall.result <=>
            /\ gcCall.ns.named
            /\ \/ gcCall.lister.err = "NotFound" /\ gcCall.api.err = "NotFound"
               \/ /\ gcCall.lister.err = "nil"
                  /\ gcCall.lister.uid # gcCall.ns.uid
                  /\ gcCall.api.err = "nil"
                  /\ gcCall.api.uid # gcCall.ns.uid)

C9_Witness ==
    /\ gcCall.made
    /\ gcCall.result
    /\ gcCall.lister.err = "nil"
    /\ gcCall.lister.uid # gcCall.ns.uid
    /\ gcCall.api.err = "nil"
    /\ gcCall.api.uid # gcCall.ns.uid

\* C10: a true result always rests on an authoritative lookup of the same
\* call that returned NotFound or another UID; with the owner's UID in the
\* authoritative store, or with a failing lookup, the result is false.
C10_NoStaleCacheDeletion ==
    gcCall.made =>
        /\ gcCall.result => gcCall.asked /\ AuthoritativeGone(gcCall)
        /\ (gcCall.api.err = "nil" /\ gcCall.api.uid = gcCall.ns.uid) => ~gcCall.result
        /\ gcCall.api.err = "error" => ~gcCall.result

C10_Witness ==
    /\ gcCall.made
    /\ gcCall.ns.named
    /\ gcCall.lister.err = "NotFound"
    /\ gcCall.asked
    /\ gcCall.api = Found(gcCall.ns.uid)
    /\ ~gcCall.result

-----------------------------------------------------------------------------
(* Patrol round: properties *)

\* the handler of an item ran in this round and this is the state it left
JustHandled(item) == ppc = "diff" /\ seen.item = item /\ plog[item].handler # "none"

\* the owning VirtualCluster was deleted and re-created under another UID
Recreated(n) ==
    /\ pSet[n].ns.named
    /\ seen.store # 0
    /\ seen.store # pSet[n].ns.uid
    /\ ~seen.apiErr

\* C11 as stated: after a re-creation under another UID, the round that
\* examines the namespace deletes it, whatever the informer cache reports.
C11_DeletedByExaminingRound ==
    \A n \in SuperNamespaces :
        (JustHandled(n) /\ Recreated(n)) => plog[n].act = "delete"

\* C11 amended: after a re-creation under another UID, a round that examines
\* the namespace deletes it once the informer cache holds a VirtualCluster
\* with another UID than the namespace's.
C11_DeletedOnceCacheCaughtUp ==
    \A n \in SuperNamespaces :
        (JustHandled(n) /\ Recreated(n) /\ seen.cache # 0 /\ seen.cache # pSet[n].ns.uid)
            => plog[n].act = "delete"

C11_Witness ==
    /\ JustHandled(RootNs)
    /\ Recreated(RootNs)
    /\ seen.cache = seen.store
    /\ plog[RootNs] = [handler |-> "delete", asked |-> TRUE, result |-> TRUE,
                       act |-> "delete", ok |-> TRUE]
    /\ ~pNamespaces[RootNs].exists

\* the namespace is an orphan: no VirtualCluster with its vc.uid exists
Orphan(n) ==
    /\ pNamespaces[n].exists
    /\ pNamespaces[n].named
    /\ vcStore # pNamespaces[n].uid

\* C12 as stated: a round that examines a namespace after the VirtualCluster
\* with its vc.uid was removed garbage-collects it, also when the informer
\* cache lags the store.
C12_ReapedWithinOneRound ==
    \A n \in SuperNamespaces :
        (/\ JustHandled(n)
         /\ pSet[n].ns.named
         /\ seen.store # pSet[n].ns.uid
         /\ ~seen.apiErr)
            => (plog[n].act = "delete" /\ (plog[n].ok => ~pNamespaces[n].exists))

\* C12 amended: an orphan is eventually garbage-collected, by a round that
\* runs after the informer cache caught up with the store.
C12_EventuallyReaped ==
    \A n \in SuperNamespaces : Orphan(n) ~> ~pNamespaces[n].exists

C12_Witness ==
    /\ JustHandled(SyncedNs)
    /\ loaded = 0
    /\ knownClusterSet = {}
    /\ seen.store = 0
    /\ seen.cache = 0
    /\ plog[SyncedNs] = [handler |-> "delete", asked |-> TRUE, result |-> TRUE,
                         act |-> "delete", ok |-> TRUE]
    /\ ~pNamespaces[SyncedNs].exists

\* the VirtualCluster that owns the listed namespace is in the store
OwnerExists(n) == seen.store # 0 /\ seen.store = pSet[n].ns.uid

\* C13 as stated: a namespace without a matching tenant namespace is deleted
\* only when its owning VirtualCluster is gone.
C13_DeletedOnlyWhenOwnerGone ==
    \A n \in SuperNamespaces :
        (JustHandled(n) /\ plog[n].handler = "delete" /\ plog[n].act = "delete")
            => ~OwnerExists(n)

\* C13 amended: a namespace without a matching tenant namespace is deleted
\* only after a GC check that found its owner gone or, when it is not a root
\* namespace and its owner cluster is known to the round, without a GC check
\* and whether or not the owner exists.
C13_DeletedWhenGoneOrKnown ==
    \A n \in SuperNamespaces :
        (JustHandled(n) /\ plog[n].handler = "delete" /\ plog[n].act = "delete")
            => \/ plog[n].asked /\ plog[n].result /\ ~OwnerExists(n)
               \/ /\ ~IsRootNs(n)
                  /\ GetVirtualOwner(pSet[n]) \in knownClusterSet
                  /\ ~plog[n].asked

C13_Witness ==
    /\ JustHandled(SyncedNs)
    /\ OwnerExists(SyncedNs)
    /\ ~vSet.exists
    /\ knownClusterSet = {pSet[SyncedNs].ns.uid}
    /\ plog[SyncedNs] = [handler |-> "delete", asked |-> FALSE, result |-> FALSE,
                         act |-> "delete", ok |-> TRUE]
    /\ ~pNamespaces[SyncedNs].exists

\* the pair (vObj, pObj) UpdateFunc was called with
Drifted == pSet[SyncedNs].extra.meta # vSet.meta
UIDMismatch == pSet[SyncedNs].extra.vuid # vSet.uid
UpdateHandled == JustHandled(SyncedNs) /\ plog[SyncedNs].handler = "update"

\* C14 as stated: on metadata drift or a UID mismatch of a paired namespace
\* the round deletes the super-cluster namespace, after the GC check.
C14_DriftDeletes ==
    (UpdateHandled /\ (Drifted \/ UIDMismatch))
        => (plog[SyncedNs].asked /\ plog[SyncedNs].act = "delete")

\* C14 amended: UpdateFunc always makes the GC check first; it deletes the
\* super-cluster namespace exactly when the check returned true or the
\* tenant namespace UID recorded on it differs from the tenant namespace's;
\* on metadata drift alone it deletes nothing and at most re-queues the
\* tenant namespace.
C14_DriftRequeues ==
    UpdateHandled =>
        /\ plog[SyncedNs].asked
        /\ plog[SyncedNs].act = "delete" <=> (plog[SyncedNs].result \/ UIDMismatch)
        /\ plog[SyncedNs].act = "requeue" => Drifted
        /\ (Drifted /\ ~plog[SyncedNs].result /\ ~UIDMismatch)
               => (plog[SyncedNs].act \in {"requeue", "none"} /\ pNamespaces[SyncedNs].exists)
        /\ (~Drifted /\ ~plog[SyncedNs].result /\ ~UIDMismatch) => plog[SyncedNs].act = "none"

C14_Witness ==
    /\ UpdateHandled
    /\ Drifted
    /\ ~UIDMismatch
    /\ plog[SyncedNs] = [handler |-> "update", asked |-> TRUE, result |-> FALSE,
                         act |-> "requeue", ok |-> TRUE]
    /\ pNamespaces[SyncedNs].exists
    /\ metrics.requeued = 1

\* a handler ran in this step
HandlerStep == ppc = "diff" /\ ppc' = "diff" /\ plog' # plog

\* C15: a tenant namespace without a super-cluster namespace is re-queued on
\* the reconciler of its owner cluster and nothing is deleted for it; each
\* counter is incremented exactly when the re-queue, respectively the
\* delete, succeeded.
C15_RequeueAndCounters ==
    /\ []((ppc = "diff" /\ todo = {} /\ vSet.exists /\ ~Paired(vSet, pSet))
              => (plog["v"].handler = "add" /\ plog["v"].act = "requeue"))
    /\ [][HandlerStep =>
            LET h == plog'[seen'.item]
            IN /\ metrics'.requeued - metrics.requeued
                      = (IF h.act = "requeue" /\ h.ok THEN 1 ELSE 0)
               /\ metrics'.deleted - metrics.deleted
                      = (IF h.act = "delete" /\ h.ok THEN 1 ELSE 0)
               /\ (h.act = "delete" /\ h.ok) <=> pNamespaces' # pNamespaces
               /\ (h.act = "requeue" /\ h.ok) <=> requeues' = requeues \cup {vSet.owner}
                                                   /\ requeues' # requeues
               /\ h.handler = "add" =>
                      (h.act = "requeue" /\ pNamespaces' = pNamespaces)]_vars

C15_Witness ==
    /\ ppc = "diff"
    /\ todo = {}
    /\ plog["v"] = [handler |-> "add", asked |-> FALSE, result |-> FALSE,
                    act |-> "requeue", ok |-> TRUE]
    /\ requeues = {vSet.owner}
    /\ plog[RootNs].act = "delete" /\ ~plog[RootNs].ok
    /\ plog[SyncedNs].act = "delete" /\ plog[SyncedNs].ok
    /\ metrics = [requeued |-> 1, deleted |-> 1]

\* C31: the patroller deletes a tenant's root namespace only when
\* shouldBeGarbageCollected returned true, and never while the VirtualCluster
\* with the UID recorded on it is in the authoritative store, also when no
\* tenant namespace maps to it and its owner cluster is known to the round.
C31_RootNsKept ==
    /\ []((JustHandled(RootNs) /\ plog[RootNs].act = "delete")
             => /\ plog[RootNs].handler = "delete"
                /\ plog[RootNs].asked
                /\ plog[RootNs].result
                /\ ~OwnerExists(RootNs))
    /\ [][(pNamespaces[RootNs].exists /\ ~pNamespaces'[RootNs].exists)
             => /\ vcStore # pNamespaces[RootNs].uid
                /\ plog'[RootNs].asked
                /\ plog'[RootNs].result]_vars

C31_Witness ==
    /\ JustHandled(RootNs)
    /\ OwnerExists(RootNs)
    /\ pSet[RootNs].ns.named
    /\ knownClusterSet = {pSet[RootNs].ns.uid}
    /\ plog[RootNs] = [handler |-> "delete", asked |-> TRUE, result |-> FALSE,
                       act |-> "none", ok |-> FALSE]
    /\ pNamespaces[RootNs].exists

\* C32: a namespace whose owner cluster is not known to the round, because
\* it is not loaded or its tenant namespaces could not be listed, is deleted
\* in that round only after shouldBeGarbageCollected found its VirtualCluster
\* gone; a delete without that applies to clusters listed in the same round,
\* whose listing showed the tenant namespace missing.
C32_UnknownClusterNeedsGC ==
    \A n \in SuperNamespaces :
        (JustHandled(n) /\ plog[n].act = "delete") =>
            /\ GetVirtualOwner(pSet[n]) \notin knownClusterSet
                  => (plog[n].asked /\ plog[n].result /\ ~OwnerExists(n))
            /\ ~(plog[n].asked /\ plog[n].result)
                  => (GetVirtualOwner(pSet[n]) \in knownClusterSet
                      /\ knownClusterSet = {loaded})
            /\ (plog[n].handler = "delete" /\ ~plog[n].asked)
                  => (loaded = GetVirtualOwner(pSet[n]) /\ ~vNs.exists)

C32_Witness ==
    /\ JustHandled(SyncedNs)
    /\ loaded # 0
    /\ loaded = GetVirtualOwner(pSet[SyncedNs])
    /\ vNs.exists
    /\ knownClusterSet = {}
    /\ OwnerExists(SyncedNs)
    /\ plog[SyncedNs] = [handler |-> "delete", asked |-> TRUE, result |-> FALSE,
                         act |-> "none", ok |-> FALSE]
    /\ pNamespaces[SyncedNs].exists

\* the namespace the round listed was replaced by a new instance
Replaced(n) == pSet[n].ns.exists /\ pSet[n].inst # pInst[n]

\* C33: a patrol delete removes only the instance the round listed: when the
\* namespace was deleted and re-created under the same name since the
\* listing, the new instance stays, the delete fails and the orphan-deleted
\* metric is not incremented.
C33_DeletesObservedInstance ==
    /\ [](\A n \in SuperNamespaces :
            (JustHandled(n) /\ plog[n].act = "delete" /\ Replaced(n))
                => (~plog[n].ok /\ pNamespaces[n].exists))
    /\ [][\A n \in SuperNamespaces :
            /\ (pNamespaces[n].exists /\ ~pNamespaces'[n].exists)
                  => (pSet[n].inst = pInst[n] /\ metrics'.deleted = metrics.deleted + 1)
            /\ (HandlerStep /\ seen'.item = n /\ Replaced(n))
                  => (metrics'.deleted = metrics.deleted /\ pNamespaces' = pNamespaces)]_vars

C33_Witness ==
    \E n \in SuperNamespaces :
        /\ JustHandled(n)
        /\ Replaced(n)
        /\ plog[n].act = "delete"
        /\ ~plog[n].ok
        /\ pNamespaces[n].exists
        /\ metrics.deleted = 0

====
